---- MODULE Spec2Model ----
(***************************************************************************)
(* Model of the meshetar trading core: the Engine (Core::run), the         *)
(* per-pair Trader event loop (Trader::run), the Portfolio accounting      *)
(* (generate_order, generate_exit_order, update_from_market,               *)
(* update_from_fill), the in-memory Database indexes and the Execution     *)
(* stage (generate_fill / fill_order).                                     *)
(*                                                                         *)
(* Numbers.  The program computes in f64.  The model is fixed point: money *)
(* and prices are integers in thousandths of the quote currency, order     *)
(* quantities are integers in thousandths of a unit, fee rates and signal  *)
(* strengths are integers in thousandths.  Scale == 1000 is that factor.   *)
(* Candle times are the positive integers 1, 2, ... (the publication       *)
(* index); wall-clock instants (Utc::now(), the exchange's transact_time)  *)
(* are the negative integers of NowTimes, so that a wall-clock time is     *)
(* never equal to a candle time.                                           *)
(***************************************************************************)
EXTENDS Integers, Sequences, FiniteSets, TLC

VARIABLES
    config,            \* CoreConfiguration: starting_equity, exchange_fee, run_live,
                       \* n_days_to_fetch, and the name of the candle stream it selects
    traders,           \* the pairs that have a Trader (the keys of Core.command_transmitters)
    command_transmitters, \* the pairs in the order Core.command_transmitters.iter() visits them
    quotes,            \* the prices the exchange executes market orders at during the run
    balance,           \* Database.current_balances[core_id]  (NoBalance before init)
    open_positions,    \* Database.open_positions: the Positions of the open index
    closed_positions,  \* Database.closed_positions[positions_exited_<core_id>]
    statistics,        \* Database.statistics[core_id]  (NoStatistics before init)
    core_pc,           \* position of Core::run
    core_pending,      \* the pairs the running fan-out loop has still to visit, in order
    core_result,       \* what Core::run returned ("none" while running)
    command_tx_alive,  \* the operator's Sender<Command> to the Core still exists
    core_command_rx,   \* Core.command_rx: commands buffered for the Core
    trader_pc,         \* position of each Trader::run
    trader_exit,       \* how each Trader left its loop
    command_reciever,  \* each Trader's mpsc::Receiver<Command> buffer
    senders_alive,     \* Core.command_transmitters still exist (Core not dropped)
    event_rx,          \* each Trader's broadcast::Receiver<Event> backlog
    feed_open,         \* the broadcast Sender still exists
    published,         \* number of market events published so far
    inputs_left,       \* how many more events and commands the environment may send
    event_queue,       \* each Trader's local VecDeque<Event>
    emitted,           \* per Trader: the Market events taken and the events sent on event_transmitter
    dispatched,        \* per Trader: the commands terminate_traders has sent to it
    open_at_terminate, \* pairs that had an open Position when the Core handled Terminate
    exited_since,      \* pairs whose Position was moved to the closed index since then
    discarded,         \* per Trader: the events its queue held when it left its loop
    market_feed,       \* a MarketFeed: its market_receiver, the channel behind it, and
                       \* what the producer sent and next() returned so far
    applied,           \* the last call of a function on its own: its name, its
                       \* arguments and what it returned
    fetching,          \* the task fetch_history spawns: the pairs it has still to
                       \* fetch, what became of the fetched ones, and its notification
    locking            \* per task: the locks it holds in the order it took them, the
                       \* lock and call steps it has still to take in the operation
                       \* it is in, and the adapter or exchange call it is in

vars == <<config, traders, command_transmitters, quotes, balance, open_positions, closed_positions, statistics,
          core_pc, core_pending, core_result, command_tx_alive, core_command_rx,
          trader_pc, trader_exit, command_reciever, senders_alive,
          event_rx, feed_open, published, inputs_left, event_queue, emitted,
          dispatched, open_at_terminate, exited_since, discarded, market_feed, applied,
          fetching, locking>>

----------------------------------------------------------------------------
(* Bounds of the model *)

MaxInputs == 3        \* events published plus commands issued in one run
MaxFeedItems == 3     \* events the producer of a MarketFeed sends
MaxPolls == 4         \* calls of MarketFeed::next
MaxCandles == 3       \* candles stored for a pair
MaxBuffer == 2        \* candles of the warm-up prefix (buffer_n_of_candles)
UsizeBits == 16       \* bits of a usize the model keeps (the counts at hand need 3)

(* Program constants *)

Scale == 1000                  \* fixed-point factor of the model
DefaultOrderValue == 100       \* Allocator { default_order_value: 100.0 }
CommandCapacity == 20          \* mpsc::channel::<Command>(20)
BroadcastCapacity == 20        \* broadcast::channel(20)

Pairs == {"BTCUSDT", "ETHBTC"}
Closes == {100 * Scale}
ExchangePrices == {100 * Scale, 120 * Scale}
Labels == {"buy", "sell", "hold"}
NowTimes == {0 - 1}
StartingEquities == {1000 * Scale}
ExchangeFees == {1}

NoBalance == [time |-> 0, total |-> 0, available |-> 0, set |-> FALSE]
NoStatistics == [starting_time |-> 0, trades |-> 0, pnl |-> 0, set |-> FALSE]

----------------------------------------------------------------------------
(* Arithmetic helpers *)

Abs(x) == IF x < 0 THEN 0 - x ELSE x

Min(a, b) == IF a < b THEN a ELSE b

\* f64 division; a division by zero (inf/NaN in f64) is mapped to 0
Div(a, b) == IF b = 0 THEN 0 ELSE IF a < 0 THEN 0 - ((0 - a) \div b) ELSE a \div b

----------------------------------------------------------------------------
(* Identifiers *)

CoreId == "core"

determine_position_id(core_id, pair) == <<core_id, pair>>

Decisions == {"Long", "CloseLong", "Short", "CloseShort"}

is_entry(decision) == decision \in {"Short", "Long"}

is_exit(decision) == decision \in {"CloseLong", "CloseShort"}

----------------------------------------------------------------------------
(* Strategy *)

NoSignal == [some |-> FALSE]

\* generate_signals_map: the model label as a map Decision -> SignalStrength
generate_signals_map(model_output) ==
    IF model_output = "sell" THEN [d \in {"CloseLong"} |-> Scale]
    ELSE IF model_output = "buy" THEN [d \in {"Long"} |-> Scale]
    ELSE [d \in {} |-> Scale]

\* Strategy::generate_backtest_signals, for one candle: the signal precomputed
\* for the candle (close, close_time) from the model label of that candle
BacktestSignal(pair, close, close_time, label) ==
    LET signal_map == generate_signals_map(label)
    IN  IF DOMAIN signal_map = {} THEN NoSignal
        ELSE [some |-> TRUE, time |-> close_time, pair |-> pair,
              market_meta |-> [close |-> close, time |-> close_time],
              signals |-> signal_map]

\* Strategy::generate_signal.  A BacktestCandle carries its precomputed signal.
\* For a live Candle the model label is the literal "hold" (the call of the
\* model adapter is commented out), mapped by generate_signals_map; `now` is
\* Utc::now().  Any other event kind gives None.
generate_signal(strategy_pair, market_event, now) ==
    IF market_event.kind = "BacktestCandle" THEN market_event.signal
    ELSE IF market_event.kind = "Candle" THEN
        LET signals == generate_signals_map("hold")
        IN  IF DOMAIN signals = {} THEN NoSignal
            ELSE [some |-> TRUE, time |-> now, pair |-> strategy_pair,
                  market_meta |-> [close |-> market_event.close, time |-> now],
                  signals |-> signals]
    ELSE NoSignal

----------------------------------------------------------------------------
(* Execution *)

\* Fees that add the rate itself, not the rate's share of the gross value
calculate_total_fees_flat(fees, gross) == fees.exchange + fees.slippage

\* Fees::calculate_total_fees
calculate_total_fees(fees, gross) ==
    Div(fees.exchange * gross, Scale) + fees.slippage

RECURSIVE SumQty(_)
SumQty(fills) == IF fills = <<>> THEN 0 ELSE Head(fills).qty + SumQty(Tail(fills))

RECURSIVE SumPriceQty(_)
SumPriceQty(fills) ==
    IF fills = <<>> THEN 0
    ELSE Head(fills).price * Head(fills).qty + SumPriceQty(Tail(fills))

NoPrice == [some |-> FALSE, price |-> 0]

\* weighted_average_price: None when the fills have total quantity zero
weighted_average_price(fills) ==
    LET total_weight == SumQty(fills)
    IN  IF total_weight = 0 THEN NoPrice
        ELSE [some |-> TRUE, price |-> Div(SumPriceQty(fills), total_weight)]

\* The order quantity sent to the exchange: (qty * 100_000).round() / 100_000.
\* Quantities of the model have three decimals, so five decimals keep them.
truncated_qty(qty) == Div(qty * 100, 100)

\* What the exchange may answer to a market order of `qty`: the request
\* fails, or a response with a status, an executed quantity, a transaction
\* time and the fills.
ExchangeResponses(qty) ==
    {[ok |-> FALSE, status |-> "", executed_qty |-> 0, transact_time |-> 0, fills |-> <<>>]}
    \cup
    {[ok |-> TRUE, status |-> "EXPIRED", executed_qty |-> 0, transact_time |-> t,
      fills |-> <<>>] : t \in NowTimes}
    \cup
    {[ok |-> TRUE, status |-> "FILLED", executed_qty |-> Abs(truncated_qty(qty)),
      transact_time |-> t, fills |-> <<>>] : t \in NowTimes}
    \cup
    {[ok |-> TRUE, status |-> "FILLED", executed_qty |-> Abs(truncated_qty(qty)),
      transact_time |-> t,
      fills |-> <<[price |-> p, qty |-> Abs(truncated_qty(qty))]>>]
        : t \in NowTimes, p \in quotes}

\* A fill_order that takes a FILLED answer whatever the weight of its fills is
fill_order_any_weight(res) ==
    LET price == weighted_average_price(res.fills)
    IN  IF ~res.ok THEN [ok |-> FALSE, error |-> "BinanceClientError"]
        ELSE IF res.status = "FILLED"
        THEN [ok |-> TRUE, qty |-> res.executed_qty,
              updated_at |-> res.transact_time, price |-> price.price]
        ELSE [ok |-> FALSE, error |-> "UnfilledOrder"]

\* fill_order, given the exchange's answer `res`: Ok(ExchangeFill) or Err
fill_order(res) ==
    LET price == weighted_average_price(res.fills)
    IN  IF ~res.ok THEN [ok |-> FALSE, error |-> "BinanceClientError"]
        ELSE IF res.status = "FILLED" /\ price.some
        THEN [ok |-> TRUE, qty |-> res.executed_qty,
              updated_at |-> res.transact_time, price |-> price.price]
        ELSE [ok |-> FALSE, error |-> "UnfilledOrder"]

\* Execution::generate_fill, given the exchange's answer: the order is sent to
\* the exchange by fill_order whatever is_live_run is (fill_time, which
\* depends on is_live_run, is computed and never used), and the FillEvent is
\* built from the exchange's execution.
generate_fill(order, is_live_run, exchange_fee, res) ==
    LET exchange_execution == fill_order(res)
    IN  IF ~exchange_execution.ok THEN [ok |-> FALSE, error |-> exchange_execution.error]
        ELSE [ok |-> TRUE,
              fill |-> [type |-> "Fill",
                        time |-> exchange_execution.updated_at,
                        pair |-> order.pair,
                        market_meta |-> order.market_meta,
                        decision |-> order.decision,
                        quantity |-> exchange_execution.qty,
                        fill_value_gross |->
                            Div(Abs(exchange_execution.qty) * exchange_execution.price, Scale),
                        fees |-> [exchange |-> exchange_fee, slippage |-> 0],
                        src |-> order.src]]

----------------------------------------------------------------------------
(* Position (portfolio/position.rs is not part of the sources at hand: the *)
(* three operations are modelled from section 4.3 of the specification)    *)

\* Position::enter: the Position an entry fill creates
PositionEnter(core_id, fill) ==
    [position_id |-> determine_position_id(core_id, fill.pair),
     pair |-> fill.pair,
     side |-> IF fill.decision = "Long" THEN "Buy" ELSE "Sell",
     quantity |-> fill.quantity,
     enter_time |-> fill.time,
     enter_fees_total |-> calculate_total_fees(fill.fees, fill.fill_value_gross),
     enter_value_gross |-> fill.fill_value_gross,
     enter_avg_price_gross |-> Div(fill.fill_value_gross * Scale, Abs(fill.quantity)),
     current_symbol_price |-> Div(fill.fill_value_gross * Scale, Abs(fill.quantity)),
     current_value_gross |-> fill.fill_value_gross,
     realised_profit_loss |-> 0,
     exit_fees_total |-> 0,
     exit_value_gross |-> 0,
     exit_avg_price_gross |-> 0,
     exit_time |-> 0,
     update_time |-> fill.time]

\* Position::update: the Position after a market event of its pair
PositionUpdate(position, market) ==
    [position EXCEPT !.current_symbol_price = market.close,
                     !.current_value_gross = Div(market.close * Abs(position.quantity), Scale),
                     !.update_time = market.time]

\* Position::exit: the Position after its exit fill
PositionExit(position, fill) ==
    LET exit_value_gross == fill.fill_value_gross
        exit_fees_total == calculate_total_fees(fill.fees, exit_value_gross)
        exit_avg == Div(exit_value_gross * Scale, Abs(fill.quantity))
        move == IF position.side = "Buy"
                THEN exit_avg - position.enter_avg_price_gross
                ELSE position.enter_avg_price_gross - exit_avg
    IN  [position EXCEPT !.exit_value_gross = exit_value_gross,
                         !.exit_fees_total = exit_fees_total,
                         !.exit_avg_price_gross = exit_avg,
                         !.exit_time = fill.time,
                         !.update_time = fill.time,
                         !.realised_profit_loss =
                             Div(move * Abs(position.quantity), Scale)
                             - position.enter_fees_total - exit_fees_total]

\* Position::determine_exit_decision
determine_exit_decision(position) ==
    IF position.side = "Buy" THEN "CloseLong" ELSE "CloseShort"

----------------------------------------------------------------------------
(* Database: the open index maps a position_id to one Position *)

NoPosition == [position_id |-> <<>>]

\* Database::get_open_position: the Positions the index holds under the id
OpenUnder(index, position_id) == {p \in index : p.position_id = position_id}

has_open_position(index, position_id) == OpenUnder(index, position_id) # {}

get_open_position(index, position_id) ==
    IF has_open_position(index, position_id)
    THEN CHOOSE p \in OpenUnder(index, position_id) : TRUE
    ELSE NoPosition

\* An index that keeps the old entry of the id next to the new one
set_open_position_keeping(index, position) == index \cup {position}

\* Database::set_open_position: HashMap::insert replaces the entry of the id
set_open_position(index, position) ==
    (index \ OpenUnder(index, position.position_id)) \cup {position}

\* Database::remove_position: HashMap::remove
remove_position(index, position_id) == index \ OpenUnder(index, position_id)

\* Database::get_all_open_positions: every open Position whose id contains the core id
get_all_open_positions(index, core_id) == {p \in index : p.position_id[1] = core_id}

\* Database::set_exited_position: push onto the core's closed list
set_exited_position(closed, position) == Append(closed, position)

----------------------------------------------------------------------------
(* Portfolio *)

NoDecision == [some |-> FALSE]

\* A parse that looks for a net entry signal before it looks at the Position
parse_signal_decisions_entry_first(position, signals) ==
    LET has(d) == d \in DOMAIN signals
        pick(d) == [some |-> TRUE, decision |-> d, strength |-> signals[d]]
    IN  IF has("Long") /\ ~has("Short") THEN pick("Long")
        ELSE IF ~has("Long") /\ has("Short") THEN pick("Short")
        ELSE IF position = NoPosition THEN NoDecision
        ELSE IF position.side = "Buy" /\ has("CloseLong") THEN pick("CloseLong")
        ELSE IF position.side = "Sell" /\ has("CloseShort") THEN pick("CloseShort")
        ELSE NoDecision

\* parse_signal_decisions
parse_signal_decisions(position, signals) ==
    LET has(d) == d \in DOMAIN signals
        pick(d) == [some |-> TRUE, decision |-> d, strength |-> signals[d]]
    IN  IF position # NoPosition THEN
            IF position.side = "Buy" /\ has("CloseLong") THEN pick("CloseLong")
            ELSE IF position.side = "Sell" /\ has("CloseShort") THEN pick("CloseShort")
            ELSE NoDecision
        ELSE IF has("Long") /\ ~has("Short") THEN pick("Long")
        ELSE IF ~has("Long") /\ has("Short") THEN pick("Short")
        ELSE NoDecision

\* Allocator::allocate_order (portfolio/allocator.rs is not part of the
\* sources at hand; modelled from section 4.3 of the specification): an entry
\* gets default_order_value / close * strength, capped by max_value / close;
\* an exit gets the negated quantity of the Position
allocate_order(order, position, signal_strength, max_value) ==
    IF is_entry(order.decision)
    THEN [order EXCEPT !.quantity =
            Min(Div(Div(DefaultOrderValue * Scale * Scale, order.market_meta.close)
                    * signal_strength, Scale),
                Div(max_value * Scale, order.market_meta.close))]
    ELSE [order EXCEPT !.quantity = 0 - position.quantity]

\* RiskEvaluator::evaluate_order (portfolio/risk.rs is not part of the sources
\* at hand): RiskEvaluator {} has no parameters; the order is returned unchanged
evaluate_order(order) == [some |-> TRUE, order |-> order]

NoOrder == [some |-> FALSE]

\* A check that finds cash whatever the balance is
no_cash_never(bal) == FALSE

\* Portfolio::no_cash_to_enter_new_position
no_cash_to_enter_new_position(bal) == bal.available = 0

\* Portfolio::generate_order; `now` is Utc::now()
generate_order(index, bal, signal, time_is_live, now) ==
    LET position == get_open_position(index, determine_position_id(CoreId, signal.pair))
        net == parse_signal_decisions(position, signal.signals)
    IN  IF position = NoPosition /\ no_cash_to_enter_new_position(bal) THEN NoOrder
        ELSE IF ~net.some THEN NoOrder
        ELSE LET order == [type |-> "Order",
                           time |-> IF time_is_live THEN now ELSE signal.time,
                           pair |-> signal.pair,
                           market_meta |-> signal.market_meta,
                           decision |-> net.decision,
                           quantity |-> Scale,
                           src |-> signal.src]
             IN  evaluate_order(allocate_order(order, position, net.strength, bal.available))

\* A forced exit order that carries the quantity of the Position, not its negation
generate_exit_order_same_sign(index, signal, live_trading, now) ==
    LET position == get_open_position(index, determine_position_id(CoreId, signal.pair))
    IN  IF position = NoPosition THEN NoOrder
        ELSE [some |-> TRUE,
              order |-> [type |-> "Order",
                         time |-> IF live_trading THEN now ELSE signal.time,
                         pair |-> signal.pair,
                         market_meta |-> [close |-> position.current_symbol_price,
                                          time |-> position.update_time],
                         decision |-> determine_exit_decision(position),
                         quantity |-> position.quantity,
                         src |-> signal.src]]

\* Portfolio::generate_exit_order; `now` is Utc::now()
generate_exit_order(index, signal, live_trading, now) ==
    LET position == get_open_position(index, determine_position_id(CoreId, signal.pair))
    IN  IF position = NoPosition THEN NoOrder
        ELSE [some |-> TRUE,
              order |-> [type |-> "Order",
                         time |-> IF live_trading THEN now ELSE signal.time,
                         pair |-> signal.pair,
                         market_meta |-> [close |-> position.current_symbol_price,
                                          time |-> position.update_time],
                         decision |-> determine_exit_decision(position),
                         quantity |-> 0 - position.quantity,
                         src |-> signal.src]]

\* An exit that returns the capital and leaves the total as it was
ExitBalanceKeepingTotal(bal, position) ==
    [bal EXCEPT !.available = bal.available + position.enter_value_gross
                              + position.realised_profit_loss + position.enter_fees_total]

\* Portfolio::update_from_fill, exit branch: the balance after the exit of `position`
ExitBalance(bal, position) ==
    [bal EXCEPT !.available = bal.available + position.enter_value_gross
                              + position.realised_profit_loss + position.enter_fees_total,
                !.total = bal.total + position.realised_profit_loss]

\* An entry that does not take its cost from the available balance
EnterBalanceKeepingAvailable(bal, position) == bal

\* Portfolio::update_from_fill, entry branch: the balance after the entry of `position`
EnterBalance(bal, position) ==
    [bal EXCEPT !.available = bal.available - position.enter_value_gross
                              - position.enter_fees_total]

\* TradingSummary::init and TradingSummary::update (the statistic module is
\* not part of the sources at hand): the starting time, the number of closed
\* Positions and their summed realised_pnl
StatisticsInit(starting_time) ==
    [starting_time |-> starting_time, trades |-> 0, pnl |-> 0, set |-> TRUE]

StatisticsUpdate(stats, position) ==
    [stats EXCEPT !.trades = stats.trades + 1,
                  !.pnl = stats.pnl + position.realised_profit_loss]

\* Events that have the Balance event before the position event
generated_events_balance_first(kind, position, bal, src) ==
    <<[kind |-> "Balance", src |-> src, balance |-> bal],
      [kind |-> kind, src |-> src, position |-> position]>>

\* generated_events of update_from_fill: the position event pushed in the
\* branch taken, then Event::Balance(balance), the value set_balance stores
generated_events(kind, position, bal, src) ==
    <<[kind |-> kind, src |-> src, position |-> position],
      [kind |-> "Balance", src |-> src, balance |-> bal]>>

\* Portfolio::update_from_fill: the database after the fill, and the events returned
update_from_fill(index, closed, bal, stats, fill) ==
    LET position_id == determine_position_id(CoreId, fill.pair)
        timed == [bal EXCEPT !.time = fill.time]
        removed == get_open_position(index, position_id)
    IN  IF removed # NoPosition
        THEN LET position == PositionExit(removed, fill)
                 new_balance == ExitBalance(timed, position)
             IN  [open |-> remove_position(index, position_id),
                  closed |-> set_exited_position(closed, position),
                  balance |-> new_balance,
                  statistics |-> StatisticsUpdate(stats, position),
                  exited |-> TRUE,
                  events |-> generated_events("PositionExit", position, new_balance, fill.src)]
        ELSE LET position == PositionEnter(CoreId, fill)
                 new_balance == EnterBalance(timed, position)
             IN  [open |-> set_open_position(remove_position(index, position_id), position),
                  closed |-> closed,
                  balance |-> new_balance,
                  statistics |-> stats,
                  exited |-> FALSE,
                  events |-> generated_events("PositionNew", position, new_balance, fill.src)]

----------------------------------------------------------------------------
(* MarketFeed *)

\* MarketFeed::new: market_receiver is None
NewMarketFeed ==
    [market_receiver |-> FALSE,   \* market_receiver.is_some()
     run |-> "never",             \* MarketFeed::run: never called, failed, started
     channel |-> <<>>,            \* the events buffered in the unbounded channel
     producer_alive |-> FALSE,    \* the ticker task still holds the sender
     sent |-> <<>>,               \* every event the producer sent
     returned |-> <<>>,           \* every event next() returned in a Next
     polls |-> 0,                 \* number of calls of next()
     last |-> [feed |-> "none"]]  \* what the last call of next() returned

\* A next() that reports Finished as soon as the producer has closed
next_finished_on_close(feed) ==
    IF ~feed.market_receiver THEN [feed |-> "Unhealthy"]
    ELSE IF ~feed.producer_alive THEN [feed |-> "Finished"]
    ELSE IF feed.channel # <<>> THEN [feed |-> "Next", event |-> Head(feed.channel)]
    ELSE [feed |-> "Empty"]

\* MarketFeed::next: Unhealthy without a receiver, else the outcome of
\* try_recv: an event, Empty, or Disconnected (the buffer is empty and every
\* sender is dropped) as Finished
next(feed) ==
    IF ~feed.market_receiver THEN [feed |-> "Unhealthy"]
    ELSE IF feed.channel # <<>> THEN [feed |-> "Next", event |-> Head(feed.channel)]
    ELSE IF feed.producer_alive THEN [feed |-> "Empty"]
    ELSE [feed |-> "Finished"]

----------------------------------------------------------------------------
(* Initial state: Core, Traders and channels are built, Core::run not yet called *)

NotApplied == [function |-> "none"]

\* The tasks that take the Portfolio lock or the Database lock: the Traders,
\* the summary tasks of generate_session_summary (one for each pair), Core::run
\* itself, the task fetch_history spawns, and new_ticker with the task it spawns
LockTasks ==
    ({"Trader", "summary"} \X Pairs)
        \cup {<<"Core", CoreId>>, <<"fetch_history", CoreId>>, <<"new_ticker", "BTCUSDT">>}

\* No task holds a lock, is in an operation or is in a call
NotLocking ==
    [held |-> [task \in LockTasks |-> <<>>],
     script |-> [task \in LockTasks |-> <<>>],
     calling |-> [task \in LockTasks |-> "none"]]

\* No history fetch task has been spawned
NotFetching == [task |-> "none", handles |-> <<>>, fetched |-> <<>>, notified |-> FALSE]

Configurations ==
    [starting_equity : StartingEquities, exchange_fee : ExchangeFees, run_live : BOOLEAN,
     stream : {"broadcast"}, n_days_to_fetch : {0}]

\* The orders in which a HashMap with the keys `keys` may iterate
IterationOrders(keys) ==
    {order \in [1..Cardinality(keys) -> keys] :
        \A i, j \in 1..Cardinality(keys) : order[i] = order[j] => i = j}

InitWith(cfg, with_traders, prices, feed, feed_is_open, commands, more_inputs) ==
    /\ config = cfg
    /\ quotes = prices
    /\ traders = with_traders
    /\ command_transmitters \in IterationOrders(with_traders)
    /\ balance = NoBalance
    /\ open_positions = {}
    /\ closed_positions = <<>>
    /\ statistics = NoStatistics
    /\ core_pc = "start"
    /\ core_pending = <<>>
    /\ core_result = "none"
    /\ command_tx_alive = TRUE
    /\ core_command_rx = commands
    /\ trader_pc = [t \in with_traders |-> "idle"]
    /\ trader_exit = [t \in with_traders |-> "none"]
    /\ command_reciever = [t \in with_traders |-> <<>>]
    /\ senders_alive = TRUE
    /\ event_rx = [t \in with_traders |-> feed]
    /\ feed_open = feed_is_open
    /\ published = Len(feed)
    /\ inputs_left = more_inputs
    /\ event_queue = [t \in with_traders |-> <<>>]
    /\ emitted = [t \in with_traders |-> <<>>]
    /\ dispatched = [t \in with_traders |-> <<>>]
    /\ open_at_terminate = {}
    /\ exited_since = {}
    /\ discarded = [t \in with_traders |-> <<>>]
    /\ market_feed = NewMarketFeed
    /\ applied = NotApplied
    /\ fetching = NotFetching
    /\ locking = NotLocking

\* App::new_run builds a Core with one Trader, for the configured pair
Init ==
    \E cfg \in Configurations :
        InitWith(cfg, {"BTCUSDT"}, ExchangePrices, <<>>, TRUE, <<>>, MaxInputs)

\* What no step of the Core, the Traders, the publisher or the operator
\* changes: the run's setup, and the MarketFeed (Trader::run polls the
\* broadcast receiver event_rx, not a MarketFeed)
setup == <<config, traders, command_transmitters, quotes, market_feed, applied, fetching,
          locking>>
db_vars == <<balance, open_positions, closed_positions, statistics>>
core_vars == <<core_pc, core_pending, core_result>>
operator_vars == <<command_tx_alive, core_command_rx>>
feed_vars == <<feed_open, published>>
history_vars == <<dispatched, open_at_terminate, exited_since>>
left_vars == <<history_vars, discarded>>

----------------------------------------------------------------------------
(* The broadcast publisher (the ticker task of App::new) *)

\* A send into the broadcast commutes with every step of the program but a
\* try_recv that finds the backlog empty, so only the sends (and the drop of
\* the sender) made while some Trader is about to poll an empty backlog are
\* explored.
PollPending == \E t \in traders : trader_pc[t] = "loop" /\ event_rx[t] = <<>>

\* What a receiver that has missed `skipped` values is told by its next try_recv
Lagged(skipped) == [type |-> "Lagged", skipped |-> skipped, src |-> 0]

\* The values a receiver missed (they were overwritten before it read them)
Skipped(backlog) ==
    IF backlog # <<>> /\ Head(backlog).type = "Lagged" THEN Head(backlog).skipped ELSE 0

\* The values the channel still holds for a receiver
Retained(backlog) == IF Skipped(backlog) > 0 THEN Tail(backlog) ELSE backlog

\* The backlog of a receiver after a send: the channel retains
\* BroadcastCapacity values, so a value sent while a receiver has that many
\* unread overwrites the oldest of them
Overwriting(backlog, event) ==
    IF Len(Retained(backlog)) < BroadcastCapacity THEN Append(backlog, event)
    ELSE <<Lagged(Skipped(backlog) + 1)>> \o Tail(Retained(backlog)) \o <<event>>

\* broadcast::Sender::send: every subscribed receiver gets the event
Broadcast(event) ==
    event_rx' = [t \in traders |->
                    IF trader_pc[t] = "done" THEN event_rx[t]
                    ELSE Overwriting(event_rx[t], event)]

\* The MarketEvent of a stored candle, with the signal precomputed from `label`
BacktestCandle(pair, close, time, label) ==
    [type |-> "Market", time |-> time, pair |-> pair, kind |-> "BacktestCandle",
     close |-> close, signal |-> BacktestSignal(pair, close, time, label), src |-> time]

ExchangeEvent == [type |-> "Exchange", src |-> 0]

MarketEvents(time) ==
    {BacktestCandle(pair, close, time, label)
        : pair \in Pairs, close \in Closes, label \in Labels}
    \cup
    {[type |-> "Market", time |-> time, pair |-> pair, kind |-> "Candle",
      close |-> close, signal |-> NoSignal, src |-> time]
        : pair \in Pairs, close \in Closes}

\* event_tx.send(Event::Market(market_event))
PublishMarket ==
    /\ feed_open
    /\ PollPending
    /\ inputs_left > 0
    /\ \E event \in MarketEvents(published + 1) : Broadcast(event)
    /\ published' = published + 1
    /\ inputs_left' = inputs_left - 1
    /\ UNCHANGED <<setup, db_vars, core_vars, operator_vars, trader_pc, trader_exit,
                   command_reciever, senders_alive, feed_open, event_queue, emitted,
                   left_vars>>

\* event_tx.send(Event::Exchange(..)): account and balance updates of the exchange
PublishExchange ==
    /\ feed_open
    /\ PollPending
    /\ inputs_left > 0
    /\ Broadcast(ExchangeEvent)
    /\ published' = published + 1
    /\ inputs_left' = inputs_left - 1
    /\ UNCHANGED <<setup, db_vars, core_vars, operator_vars, trader_pc, trader_exit,
                   command_reciever, senders_alive, feed_open, event_queue, emitted,
                   left_vars>>

\* every broadcast Sender is dropped: receivers read the backlog, then Closed
CloseFeed ==
    /\ feed_open
    /\ PollPending
    /\ feed_open' = FALSE
    /\ UNCHANGED <<setup, db_vars, core_vars, operator_vars, trader_pc, trader_exit,
                   command_reciever, senders_alive, event_rx, published, inputs_left,
                   event_queue, emitted, left_vars>>

----------------------------------------------------------------------------
(* The operator (the App holding core_command_tx) *)

Commands ==
    {[type |-> "ExitPosition", pair |-> p] : p \in Pairs}
    \cup {[type |-> "ExitAllPositions"], [type |-> "Terminate"], [type |-> "Start"]}

\* A send to the Core commutes with every step but the Core's recv on an
\* empty buffer: only the sends (and the drop of the sender) made while the
\* Core waits in select! with an empty buffer are explored.
OperatorSend ==
    /\ command_tx_alive
    /\ inputs_left > 0
    /\ core_pc = "select"
    /\ core_command_rx = <<>>
    /\ \E c \in Commands : core_command_rx' = Append(core_command_rx, c)
    /\ inputs_left' = inputs_left - 1
    /\ UNCHANGED <<setup, db_vars, core_vars, command_tx_alive, trader_pc, trader_exit,
                   command_reciever, senders_alive, event_rx, feed_vars, event_queue,
                   emitted, left_vars>>

OperatorDrop ==
    /\ command_tx_alive
    /\ core_pc = "select"
    /\ core_command_rx = <<>>
    /\ command_tx_alive' = FALSE
    /\ UNCHANGED <<setup, db_vars, core_vars, core_command_rx, inputs_left, trader_pc,
                   trader_exit, command_reciever, senders_alive, event_rx, feed_vars,
                   event_queue, emitted, left_vars>>

----------------------------------------------------------------------------
(* Core::run: the history fetch that precedes init_core_in_db *)

\* What one turn of the fetch task's loop can come to: fetch_candles returns
\* Ok and add_candles is called (its result is dropped by `let _ =`), or
\* fetch_candles returns Err and the error is logged
FetchOutcomes ==
    {[fetch |-> "Ok", add_candles |-> "Ok", logged |-> FALSE],
     [fetch |-> "Ok", add_candles |-> "Err", logged |-> FALSE],
     [fetch |-> "Err", add_candles |-> "none", logged |-> TRUE]}

\* fetch_history: a handle per Trader's pair, in the order of Core.traders,
\* the channel of capacity 1, and the spawned task; Core::run then waits on
\* fetching_stopped.recv()
CoreFetchHistory ==
    /\ core_pc = "start"
    /\ config.n_days_to_fetch > 0
    /\ \E handles \in IterationOrders(traders) :
          fetching' = [task |-> "running", handles |-> handles, fetched |-> <<>>,
                       notified |-> FALSE]
    /\ core_pc' = "fetching"
    /\ UNCHANGED <<config, traders, command_transmitters, quotes, market_feed, applied, locking,
                   inputs_left, db_vars, core_pending, core_result, operator_vars, trader_pc,
                   trader_exit, command_reciever, senders_alive, event_rx, feed_vars,
                   event_queue, emitted, left_vars>>

\* One turn of `for handle in handles` in the spawned task
FetchCandles ==
    /\ fetching.task = "running"
    /\ fetching.handles # <<>>
    /\ \E outcome \in FetchOutcomes :
          fetching' = [fetching EXCEPT
                          !.handles = Tail(@),
                          !.fetched = Append(@, [pair |-> Head(fetching.handles),
                                                 fetch |-> outcome.fetch,
                                                 add_candles |-> outcome.add_candles,
                                                 logged |-> outcome.logged])]
    /\ UNCHANGED <<config, traders, command_transmitters, quotes, market_feed, applied, locking,
                   inputs_left, db_vars, core_vars, operator_vars, trader_pc,
                   trader_exit, command_reciever, senders_alive, event_rx, feed_vars,
                   event_queue, emitted, left_vars>>

\* The spawned task after its loop: notify_transmitter.send(true), and the task ends
FetchNotify ==
    /\ fetching.task = "running"
    /\ fetching.handles = <<>>
    /\ fetching' = [fetching EXCEPT !.task = "ended", !.notified = TRUE]
    /\ UNCHANGED <<config, traders, command_transmitters, quotes, market_feed, applied, locking,
                   inputs_left, db_vars, core_vars, operator_vars, trader_pc,
                   trader_exit, command_reciever, senders_alive, event_rx, feed_vars,
                   event_queue, emitted, left_vars>>

\* A Core::run that leaves the wait without a notification
CoreFetchingStoppedUnnotified ==
    /\ core_pc = "fetching"
    /\ fetching' = [fetching EXCEPT !.notified = FALSE]
    /\ core_pc' = "fetched"
    /\ UNCHANGED <<config, traders, command_transmitters, quotes, market_feed, applied, locking,
                   inputs_left, db_vars, core_pending, core_result, operator_vars, trader_pc,
                   trader_exit, command_reciever, senders_alive, event_rx, feed_vars,
                   event_queue, emitted, left_vars>>

\* select!: fetching_stopped.recv() returns the notification, and the loop breaks
CoreFetchingStopped ==
    /\ core_pc = "fetching"
    /\ fetching.notified
    /\ fetching' = [fetching EXCEPT !.notified = FALSE]
    /\ core_pc' = "fetched"
    /\ UNCHANGED <<config, traders, command_transmitters, quotes, market_feed, applied, locking,
                   inputs_left, db_vars, core_pending, core_result, operator_vars, trader_pc,
                   trader_exit, command_reciever, senders_alive, event_rx, feed_vars,
                   event_queue, emitted, left_vars>>

\* Core::run has come to init_core_in_db: at once when n_days_history_fetch
\* is 0, else after the wait on fetching_stopped
history_fetch_over ==
    \/ core_pc = "start" /\ config.n_days_to_fetch = 0
    \/ core_pc = "fetched"

----------------------------------------------------------------------------
(* Core::run *)

\* init_core_in_db (its result is dropped by `let _ =`), then run_traders
CoreStart ==
    /\ history_fetch_over
    /\ \E now \in NowTimes, starting_time \in NowTimes :
          /\ balance' = [time |-> now, total |-> config.starting_equity,
                         available |-> config.starting_equity, set |-> TRUE]
          /\ statistics' = StatisticsInit(starting_time)
    /\ trader_pc' = [t \in traders |-> "loop"]
    /\ core_pc' = "select"
    /\ UNCHANGED <<setup, inputs_left, open_positions, closed_positions, core_pending, core_result,
                   operator_vars, trader_exit, command_reciever, senders_alive, event_rx,
                   feed_vars, event_queue, emitted, left_vars>>

\* init_core_in_db returns Err by `?` at the write `failing` (set_balance and
\* set_statistics return Result<(), DatabaseError>): what was written before
\* it stays, the rest is not written.  `let _ =` drops the result and
\* run_traders follows.
CoreStartInitFails ==
    /\ history_fetch_over
    /\ \E failing \in {"set_balance", "set_statistics"}, now \in NowTimes :
          balance' = IF failing = "set_balance" THEN balance
                     ELSE [time |-> now, total |-> config.starting_equity,
                           available |-> config.starting_equity, set |-> TRUE]
    /\ trader_pc' = [t \in traders |-> "loop"]
    /\ core_pc' = "select"
    /\ UNCHANGED <<setup, inputs_left, open_positions, closed_positions, statistics,
                   core_pending, core_result, operator_vars, trader_exit, command_reciever,
                   senders_alive, event_rx, feed_vars, event_queue, emitted, left_vars>>

\* A notifier that reports once the first Trader task has ended
trading_stopped_on_first(pcs) == \E t \in DOMAIN pcs : pcs[t] = "done"

\* run_traders: the notifier task awaits the handle of every Trader task and
\* then sends on the channel trading_stopped receives from
trading_stopped(pcs) == \A t \in DOMAIN pcs : pcs[t] = "done"

\* select!: trading_stopped.recv() is ready once every Trader task has ended
CoreTradingStopped ==
    /\ core_pc = "select"
    /\ trading_stopped(trader_pc)
    /\ core_pc' = "summary"
    /\ UNCHANGED <<setup, inputs_left, db_vars, core_pending, core_result, operator_vars, trader_pc,
                   trader_exit, command_reciever, senders_alive, event_rx, feed_vars,
                   event_queue, emitted, left_vars>>

\* A Terminate arm that sends Terminate without exit_all_positions before it
CommandArmTerminateOnly(command) ==
    IF command.type = "ExitPosition"
    THEN IF command.pair \in traders THEN "exit_position" ELSE "select"
    ELSE IF command.type = "ExitAllPositions" THEN "exit_all_positions"
    ELSE IF command.type = "Terminate" THEN "terminate_traders"
    ELSE "select"

\* The arm of `match command` in Core::run: where the Core goes to handle it
CommandArm(command) ==
    IF command.type = "ExitPosition"
    THEN IF command.pair \in traders THEN "exit_position" ELSE "select"
    ELSE IF command.type = "ExitAllPositions" THEN "exit_all_positions"
    ELSE IF command.type = "Terminate" THEN "terminate_exit_all"
    ELSE "select"

\* The Traders the fan-out loop of an arm sends to
ArmTargets(command, arm) ==
    IF arm = "select" THEN <<>>
    ELSE IF arm = "exit_position" THEN <<command.pair>>
    ELSE command_transmitters

\* select!: command_rx.recv() returns a command
CoreCommand ==
    /\ core_pc = "select"
    /\ core_command_rx # <<>>
    /\ LET command == Head(core_command_rx)
           arm == CommandArm(command)
       IN  /\ core_command_rx' = Tail(core_command_rx)
           /\ core_pc' = arm
           /\ core_pending' = ArmTargets(command, arm)
           /\ IF command.type = "Terminate"
              THEN /\ dispatched' = [t \in traders |-> <<>>]
                   /\ open_at_terminate' = {t \in traders :
                          has_open_position(open_positions, determine_position_id(CoreId, t))}
                   /\ exited_since' = {}
              ELSE UNCHANGED history_vars
    /\ UNCHANGED <<setup, db_vars, core_result, command_tx_alive, inputs_left,
                   trader_pc, trader_exit, command_reciever, senders_alive, event_rx,
                   feed_vars, event_queue, emitted, discarded>>

\* select!: command_rx.recv() returns None, the operator's sender is gone
CoreCommandClosed ==
    /\ core_pc = "select"
    /\ core_command_rx = <<>>
    /\ ~command_tx_alive
    /\ core_pc' = "summary"
    /\ UNCHANGED <<setup, inputs_left, db_vars, core_pending, core_result, operator_vars, trader_pc,
                   trader_exit, command_reciever, senders_alive, event_rx, feed_vars,
                   event_queue, emitted, left_vars>>

\* mpsc::Sender::send(command).await to the Trader of `asset`: an error when
\* the Trader has dropped its receiver, otherwise the command is buffered
\* (the send waits while the buffer is full)
CanSend(asset) ==
    trader_pc[asset] = "done" \/ Len(command_reciever[asset]) < CommandCapacity

Send(asset, command) ==
    /\ command_reciever' =
          IF trader_pc[asset] = "done" THEN command_reciever
          ELSE [command_reciever EXCEPT ![asset] = Append(@, command)]
    /\ dispatched' =
          IF core_pc \in {"terminate_exit_all", "terminate_traders"}
          THEN [dispatched EXCEPT ![asset] =
                   Append(@, [type |-> command.type,
                              delivered |-> trader_pc[asset] # "done"])]
          ELSE dispatched

\* A terminate_traders that ends after exit_all_positions, back in the select loop
AfterFanOutWithoutTerminate(pc) ==
    IF pc = "terminate_traders" THEN "summary" ELSE "select"

\* Where Core::run continues once the fan-out loop at `pc` has visited every pair
AfterFanOut(pc) ==
    IF pc = "terminate_exit_all" THEN "terminate_traders"
    ELSE IF pc = "terminate_traders" THEN "summary"
    ELSE "select"

\* exit_position / exit_all_positions: one iteration of the loop over command_transmitters
CoreSendExitPosition ==
    /\ core_pc \in {"exit_position", "exit_all_positions", "terminate_exit_all"}
    /\ LET asset == Head(core_pending)
       IN  /\ CanSend(asset)
           /\ Send(asset, [type |-> "ExitPosition", pair |-> asset])
           /\ IF Tail(core_pending) = <<>>
              THEN /\ core_pc' = AfterFanOut(core_pc)
                   /\ core_pending' = IF AfterFanOut(core_pc) = "terminate_traders"
                                      THEN command_transmitters ELSE <<>>
              ELSE /\ core_pc' = core_pc
                   /\ core_pending' = Tail(core_pending)
    /\ UNCHANGED <<setup, inputs_left, db_vars, core_result, operator_vars, trader_pc, trader_exit,
                   senders_alive, event_rx, feed_vars, event_queue, emitted,
                   open_at_terminate, exited_since, discarded>>

\* terminate_traders: one iteration of the loop sending Terminate
CoreSendTerminate ==
    /\ core_pc = "terminate_traders"
    /\ LET asset == Head(core_pending)
       IN  /\ CanSend(asset)
           /\ Send(asset, [type |-> "Terminate"])
           /\ IF Tail(core_pending) = <<>>
              THEN /\ core_pc' = AfterFanOut(core_pc)
                   /\ core_pending' = <<>>
              ELSE /\ core_pc' = core_pc
                   /\ core_pending' = Tail(core_pending)
    /\ UNCHANGED <<setup, inputs_left, db_vars, core_result, operator_vars, trader_pc, trader_exit,
                   senders_alive, event_rx, feed_vars, event_queue, emitted,
                   open_at_terminate, exited_since, discarded>>

\* The report step and the return of Core::run; the Core is dropped with the
\* task that ran it, and with it the Traders' command senders.  `report` is
\* how the report step goes: File::create fails (logged, Ok); summary.css
\* cannot be read, the stylesheet cannot be written, or
\* generate_session_summary fails, as it does when the core's statistics are
\* missing (each Err by `?`); a table fails to print (logged, Ok); or the
\* report is written.
ReportOutcomes ==
    {"create_fails", "css_fails", "write_fails", "summary_fails", "print_fails", "written"}

\* What Core::run returns after the report step
ReportResult(report) ==
    IF report \in {"css_fails", "write_fails", "summary_fails"} THEN "Err" ELSE "Ok"

CoreSummary ==
    /\ core_pc = "summary"
    /\ \E report \in ReportOutcomes :
          /\ report \in {"print_fails", "written"} => statistics.set
          /\ core_result' = ReportResult(report)
    /\ core_pc' = "returned"
    /\ senders_alive' = FALSE
    /\ UNCHANGED <<setup, inputs_left, db_vars, core_pending, operator_vars, trader_pc, trader_exit,
                   command_reciever, event_rx, feed_vars, event_queue, emitted,
                   left_vars>>

----------------------------------------------------------------------------
(* Trader::run *)

\* A Trader that handles the events still in its queue before it ends
LeaveAfterDrain(t, how) ==
    /\ trader_pc' = [trader_pc EXCEPT ![t] = IF event_queue[t] = <<>> THEN "done" ELSE "drain"]
    /\ trader_exit' = [trader_exit EXCEPT ![t] = how]
    /\ command_reciever' = [command_reciever EXCEPT ![t] = <<>>]
    /\ event_rx' = [event_rx EXCEPT ![t] = <<>>]
    /\ UNCHANGED <<event_queue, discarded>>

\* The Trader task ends: its receivers and its event queue are dropped
Leave(t, how) ==
    /\ trader_pc' = [trader_pc EXCEPT ![t] = "done"]
    /\ trader_exit' = [trader_exit EXCEPT ![t] = how]
    /\ command_reciever' = [command_reciever EXCEPT ![t] = <<>>]
    /\ event_rx' = [event_rx EXCEPT ![t] = <<>>]
    /\ event_queue' = [event_queue EXCEPT ![t] = <<>>]
    /\ discarded' = [discarded EXCEPT ![t] = event_queue[t]]

SignalForceExit(asset, time) ==
    [type |-> "SignalForceExit", time |-> time, pair |-> asset, src |-> 0]

\* while let Some(command) = self.receive_remote_command(): a buffered command
TraderCommand(t) ==
    /\ t \in traders
    /\ trader_pc[t] = "loop"
    /\ command_reciever[t] # <<>>
    /\ LET command == Head(command_reciever[t])
       IN  \/ /\ command.type = "Terminate"
              /\ Leave(t, "terminate")
           \/ /\ command.type = "ExitPosition"
              /\ \E now \in NowTimes :
                    event_queue' = [event_queue EXCEPT ![t] =
                                       Append(@, SignalForceExit(command.pair, now))]
              /\ command_reciever' = [command_reciever EXCEPT ![t] = Tail(@)]
              /\ UNCHANGED <<trader_pc, trader_exit, event_rx, discarded>>
    /\ UNCHANGED <<setup, inputs_left, db_vars, core_vars, operator_vars, senders_alive, feed_vars,
                   emitted, history_vars>>

\* A Trader that takes Disconnected for Empty and waits for a command
TraderCommandDisconnectedAsEmpty(t) ==
    /\ t \in traders
    /\ trader_pc[t] = "loop"
    /\ command_reciever[t] = <<>>
    /\ ~senders_alive
    /\ UNCHANGED vars

\* receive_remote_command: TryRecvError::Disconnected, a synthetic Terminate
TraderCommandDisconnected(t) ==
    /\ t \in traders
    /\ trader_pc[t] = "loop"
    /\ command_reciever[t] = <<>>
    /\ ~senders_alive
    /\ Leave(t, "terminate")
    /\ UNCHANGED <<setup, inputs_left, db_vars, core_vars, operator_vars, senders_alive, feed_vars,
                   emitted, history_vars>>

\* receive_remote_command returns None on TryRecvError::Empty: the command
\* drain is over and the feed is polled
CommandsDrained(t) ==
    /\ t \in traders
    /\ trader_pc[t] = "loop"
    /\ command_reciever[t] = <<>>
    /\ senders_alive

\* What the Trader records of an event it takes from the feed
Taken(event) ==
    IF event.type = "Market" THEN <<[kind |-> "Market", src |-> event.src]>> ELSE <<>>

\* event_rx.try_recv() returns Ok(event): the event is queued, the drain follows
TraderPollNext(t) ==
    /\ CommandsDrained(t)
    /\ event_rx[t] # <<>>
    /\ Skipped(event_rx[t]) = 0
    /\ event_queue' = [event_queue EXCEPT ![t] = Append(@, Head(event_rx[t]))]
    /\ event_rx' = [event_rx EXCEPT ![t] = Tail(@)]
    /\ emitted' = [emitted EXCEPT ![t] = @ \o Taken(Head(event_rx[t]))]
    /\ trader_pc' = [trader_pc EXCEPT ![t] = "drain"]
    /\ UNCHANGED <<setup, inputs_left, db_vars, core_vars, operator_vars, trader_exit,
                   command_reciever, senders_alive, feed_vars, left_vars>>

\* event_rx.try_recv() returns Empty: `continue`, back to the command drain
\* with nothing changed (the event queue is not drained in this iteration)
TraderPollEmpty(t) ==
    /\ CommandsDrained(t)
    /\ event_rx[t] = <<>>
    /\ feed_open
    /\ UNCHANGED vars

\* event_rx.try_recv() returns Lagged(num_skipped): a warning is logged, then
\* `continue`; the receiver goes on from the oldest value the channel holds
TraderPollLagged(t) ==
    /\ CommandsDrained(t)
    /\ Skipped(event_rx[t]) > 0
    /\ event_rx' = [event_rx EXCEPT ![t] = Retained(@)]
    /\ UNCHANGED <<setup, inputs_left, db_vars, core_vars, operator_vars, trader_pc,
                   trader_exit, command_reciever, senders_alive, feed_vars, event_queue,
                   emitted, left_vars>>

\* A drain that handles one event and goes back to the commands and the feed
AfterEventBackToPoll(queue) == "loop"

\* Where the loop goes after the event queue drain has handled one event
AfterEvent(queue) == IF queue = <<>> THEN "loop" ELSE "drain"

\* event_rx.try_recv() returns Closed: a forced exit when the core has an open
\* Position (positions.last() of a HashMap iteration: any of them), else break
TraderPollClosed(t) ==
    /\ CommandsDrained(t)
    /\ event_rx[t] = <<>>
    /\ ~feed_open
    /\ LET positions == get_all_open_positions(open_positions, CoreId)
       IN  IF positions # {}
           THEN /\ \E last \in positions :
                     event_queue' = [event_queue EXCEPT ![t] =
                                        Append(@, SignalForceExit(t, last.update_time))]
                /\ trader_pc' = [trader_pc EXCEPT ![t] = "drain"]
                /\ UNCHANGED <<trader_exit, command_reciever, event_rx, discarded>>
           ELSE Leave(t, "finished")
    /\ UNCHANGED <<setup, inputs_left, db_vars, core_vars, operator_vars, senders_alive, feed_vars,
                   emitted, history_vars>>

\* The event queue drain has `event` at its front
Front(t, type) ==
    /\ t \in traders
    /\ trader_pc[t] = "drain"
    /\ event_queue[t] # <<>>
    /\ Head(event_queue[t]).type = type

\* The queue after the front event was handled and `pushed` were pushed back
Drained(t, pushed) ==
    /\ event_queue' = [event_queue EXCEPT ![t] = Tail(@) \o pushed]
    /\ trader_pc' = [trader_pc EXCEPT ![t] = AfterEvent(Tail(event_queue[t]) \o pushed)]

\* The events sent on event_transmitter.  The record kept of them holds the
\* events derived from a market event (src > 0); the events of a forced exit
\* (src = 0), which may repeat without end while the exchange refuses the
\* order, are sent and not recorded.
RECURSIVE Derived(_)
Derived(events) ==
    IF events = <<>> THEN <<>>
    ELSE IF Head(events).src > 0 THEN <<Head(events)>> \o Derived(Tail(events))
    ELSE Derived(Tail(events))

Sent(t, events) == emitted' = [emitted EXCEPT ![t] = @ \o Derived(events)]

\* The kind and the origin of each of `events`, which is what the record keeps
Kinds(events) == [i \in DOMAIN events |-> [kind |-> events[i].kind, src |-> events[i].src]]

\* Event::Market: generate_signal for the own pair, then update_from_market
TraderMarket(t) ==
    /\ Front(t, "Market")
    /\ LET market_event == Head(event_queue[t])
           position == get_open_position(open_positions,
                                         determine_position_id(CoreId, market_event.pair))
       IN  \E now \in NowTimes :
              LET signal == IF market_event.pair = t
                            THEN generate_signal(t, market_event, now)
                            ELSE NoSignal
                  queued == IF signal.some
                            THEN <<[type |-> "Signal", time |-> signal.time,
                                    pair |-> signal.pair,
                                    market_meta |-> signal.market_meta,
                                    signals |-> signal.signals,
                                    src |-> market_event.src]>>
                            ELSE <<>>
              IN  /\ Drained(t, queued)
                  /\ open_positions' =
                        IF position # NoPosition
                        THEN set_open_position(open_positions,
                                               PositionUpdate(position, market_event))
                        ELSE open_positions
                  /\ Sent(t, (IF signal.some
                              THEN <<[kind |-> "Signal", src |-> market_event.src]>>
                              ELSE <<>>)
                             \o (IF position # NoPosition
                                 THEN <<[kind |-> "PositionUpdate", src |-> market_event.src]>>
                                 ELSE <<>>))
    /\ UNCHANGED <<setup, inputs_left, balance, closed_positions, statistics, core_vars,
                   operator_vars, trader_exit, command_reciever, senders_alive, event_rx,
                   feed_vars, left_vars>>

\* An order the Portfolio returned is sent and queued
OrderOutcome(t, order) ==
    /\ Drained(t, IF order.some THEN <<order.order>> ELSE <<>>)
    /\ Sent(t, IF order.some THEN <<[kind |-> "Order", src |-> order.order.src]>> ELSE <<>>)

\* Event::Signal: generate_order
TraderSignal(t) ==
    /\ Front(t, "Signal")
    /\ \E now \in NowTimes :
          OrderOutcome(t, generate_order(open_positions, balance, Head(event_queue[t]),
                                         config.run_live, now))
    /\ UNCHANGED <<setup, inputs_left, db_vars, core_vars, operator_vars, trader_exit,
                   command_reciever, senders_alive, event_rx, feed_vars, left_vars>>

\* Event::SignalForceExit: generate_exit_order
TraderSignalForceExit(t) ==
    /\ Front(t, "SignalForceExit")
    /\ \E now \in NowTimes :
          OrderOutcome(t, generate_exit_order(open_positions, Head(event_queue[t]),
                                              config.run_live, now))
    /\ UNCHANGED <<setup, inputs_left, db_vars, core_vars, operator_vars, trader_exit,
                   command_reciever, senders_alive, event_rx, feed_vars, left_vars>>

\* The arms of `match generate_fill(..)`: Ok(fill) is sent and queued; for
\* Err(e) nothing is queued
FillOutcome(t, order, filled) ==
    /\ Drained(t, IF filled.ok THEN <<filled.fill>> ELSE <<>>)
    /\ Sent(t, IF filled.ok THEN <<[kind |-> "Fill", src |-> order.src]>> ELSE <<>>)

\* Event::Order: generate_fill; an error is logged and nothing is queued
TraderOrder(t) ==
    /\ Front(t, "Order")
    /\ LET order == Head(event_queue[t])
       IN  \E res \in ExchangeResponses(order.quantity) :
              FillOutcome(t, order,
                          generate_fill(order, config.run_live, config.exchange_fee, res))
    /\ UNCHANGED <<setup, inputs_left, db_vars, core_vars, operator_vars, trader_exit,
                   command_reciever, senders_alive, event_rx, feed_vars, left_vars>>

\* Event::Order, with the call of generate_fill on record: what the exchange
\* answered and what generate_fill returned (the error is what log::error! writes)
TraderOrderOnRecord(t) ==
    /\ Front(t, "Order")
    /\ LET order == Head(event_queue[t])
       IN  \E res \in ExchangeResponses(order.quantity) :
              LET filled == generate_fill(order, config.run_live, config.exchange_fee, res)
              IN  /\ FillOutcome(t, order, filled)
                  /\ applied' = [function |-> "generate_fill", trader |-> t,
                                 res |-> res, result |-> filled]
    /\ UNCHANGED <<config, traders, command_transmitters, quotes, market_feed, fetching, locking,
                   inputs_left, db_vars, core_vars, operator_vars, trader_exit,
                   command_reciever, senders_alive, event_rx, feed_vars, left_vars>>

\* Event::Fill: update_from_fill returns Ok (the balance of the core is in
\* the database and, for an exit, its statistics are), and its events are sent
TraderFill(t) ==
    /\ Front(t, "Fill")
    /\ balance.set
    /\ statistics.set \/ ~has_open_position(open_positions,
                              determine_position_id(CoreId, Head(event_queue[t]).pair))
    /\ LET fill == Head(event_queue[t])
           after == update_from_fill(open_positions, closed_positions, balance,
                                     statistics, fill)
       IN  /\ open_positions' = after.open
           /\ closed_positions' = after.closed
           /\ balance' = after.balance
           /\ statistics' = after.statistics
           /\ exited_since' = IF after.exited THEN exited_since \cup {fill.pair}
                              ELSE exited_since
           /\ Drained(t, <<>>)
           /\ Sent(t, Kinds(after.events))
    /\ UNCHANGED <<setup, inputs_left, core_vars, operator_vars, trader_exit, command_reciever,
                   senders_alive, event_rx, feed_vars, dispatched,
                   open_at_terminate, discarded>>

\* Event::Fill, with the call of update_from_fill on record: the fill, whether
\* a Position was open for its pair, and what the call returned
TraderFillOnRecord(t) ==
    /\ Front(t, "Fill")
    /\ balance.set
    /\ statistics.set \/ ~has_open_position(open_positions,
                              determine_position_id(CoreId, Head(event_queue[t]).pair))
    /\ LET fill == Head(event_queue[t])
           after == update_from_fill(open_positions, closed_positions, balance,
                                     statistics, fill)
       IN  /\ open_positions' = after.open
           /\ closed_positions' = after.closed
           /\ balance' = after.balance
           /\ statistics' = after.statistics
           /\ exited_since' = IF after.exited THEN exited_since \cup {fill.pair}
                              ELSE exited_since
           /\ Drained(t, <<>>)
           /\ Sent(t, Kinds(after.events))
           /\ applied' = [function |-> "update_from_fill", fill |-> fill,
                          exited |-> after.exited, events |-> after.events]
    /\ UNCHANGED <<config, traders, command_transmitters, quotes, market_feed, fetching, locking,
                   inputs_left, core_vars, operator_vars, trader_exit, command_reciever,
                   senders_alive, event_rx, feed_vars, dispatched,
                   open_at_terminate, discarded>>

\* Event::Fill, update_from_fill returns Err and `?` makes Trader::run return
\* it.  The calls that can fail come after remove_position: Position::exit
\* and get_statistics in the exit branch, Position::enter in the entry
\* branch.  The balance, changed in a local copy only, is not written.
TraderFillFails(t) ==
    /\ Front(t, "Fill")
    /\ open_positions' =
          remove_position(open_positions,
                          determine_position_id(CoreId, Head(event_queue[t]).pair))
    /\ Leave(t, "failed")
    /\ UNCHANGED <<setup, inputs_left, balance, closed_positions, statistics, core_vars,
                   operator_vars, senders_alive, feed_vars, emitted, history_vars>>

\* any other event of the broadcast: `_ => {}`
TraderOther(t) ==
    /\ Front(t, "Exchange")
    /\ Drained(t, <<>>)
    /\ UNCHANGED <<setup, inputs_left, db_vars, core_vars, operator_vars, trader_exit,
                   command_reciever, senders_alive, event_rx, feed_vars, emitted,
                   left_vars>>

\* The feed poll and the event queue drain of the loop
Trading(t) ==
    \/ TraderPollNext(t)
    \/ TraderPollEmpty(t)
    \/ TraderPollClosed(t)
    \/ TraderMarket(t)
    \/ TraderSignal(t)
    \/ TraderSignalForceExit(t)
    \/ TraderOrder(t)
    \/ TraderFill(t)

Trader(t) ==
    \/ TraderCommand(t)
    \/ TraderCommandDisconnected(t)
    \/ TraderOther(t)
    \/ Trading(t)

CoreStep ==
    \/ CoreStart
    \/ CoreTradingStopped
    \/ CoreCommand
    \/ CoreCommandClosed
    \/ CoreSendExitPosition
    \/ CoreSendTerminate
    \/ CoreSummary

\* The environment sending new input
Inputs ==
    \/ PublishMarket
    \/ PublishExchange
    \/ OperatorSend

\* The program running on the input it has, and the senders being dropped
Run ==
    \/ CoreStep
    \/ CloseFeed
    \/ OperatorDrop
    \/ \E t \in Pairs : Trader(t)

Next ==
    \/ Inputs
    \/ Run

Spec == Init /\ [][Next]_vars

----------------------------------------------------------------------------
(* A backtest on prepared input: the candles of the stream are in the      *)
(* broadcast's backlog from the start, the operator sends no command, and  *)
(* the stream ends (the sender is dropped) at some point                   *)

Backtest ==
    \/ CoreStart
    \/ CoreTradingStopped
    \/ CoreSummary
    \/ CloseFeed
    \/ \E t \in Pairs : Trading(t)

\* Closes 100, 110, 120 with the model labels buy, hold, sell
CleanLongCycle ==
    <<BacktestCandle("BTCUSDT", 100 * Scale, 1, "buy"),
      BacktestCandle("BTCUSDT", 110 * Scale, 2, "hold"),
      BacktestCandle("BTCUSDT", 120 * Scale, 3, "sell")>>

\* One buy signal, for a core that starts with no equity
VetoOnZeroCash == <<BacktestCandle("BTCUSDT", 100 * Scale, 1, "buy")>>

\* The stream ends while the Long entered at 100 is open at 105
ForceExitOnFeedFinish ==
    <<BacktestCandle("BTCUSDT", 100 * Scale, 1, "buy"),
      BacktestCandle("BTCUSDT", 105 * Scale, 2, "hold")>>

\* The candles (with the model's labels) stored under a stream name
StoredCandles(stream) ==
    IF stream = "clean_long_cycle" THEN CleanLongCycle
    ELSE IF stream = "veto_on_zero_cash" THEN VetoOnZeroCash
    ELSE ForceExitOnFeedFinish

BacktestConfigurations ==
    {[starting_equity |-> 1000 * Scale, exchange_fee |-> 1, run_live |-> FALSE,
      stream |-> "clean_long_cycle", n_days_to_fetch |-> 0],
     [starting_equity |-> 0, exchange_fee |-> 1, run_live |-> FALSE,
      stream |-> "veto_on_zero_cash", n_days_to_fetch |-> 0],
     [starting_equity |-> 1000 * Scale, exchange_fee |-> 0, run_live |-> FALSE,
      stream |-> "force_exit_on_feed_finish", n_days_to_fetch |-> 0]}

BacktestInit ==
    \E cfg \in BacktestConfigurations :
        InitWith(cfg, {"BTCUSDT"}, ExchangePrices, StoredCandles(cfg.stream), TRUE, <<>>, 0)

BacktestSpec == BacktestInit /\ [][Backtest]_vars

\* The Core and the Trader of a backtest are tasks of the tokio runtime: each
\* keeps being scheduled while it has a step to take.  The answers of the
\* exchange are not the runtime's to schedule.
BacktestCoreTask ==
    \/ CoreStart
    \/ CoreTradingStopped
    \/ CoreSummary

FairBacktestSpec ==
    /\ BacktestSpec
    /\ WF_vars(BacktestCoreTask)
    /\ \A t \in Pairs : WF_vars(Trading(t))

----------------------------------------------------------------------------
(* A Core with a Trader for each pair, both trading on the one balance *)

SharedEvents(time) ==
    {BacktestCandle(pair, close, time, label)
        : pair \in Pairs, close \in Closes, label \in {"buy", "sell"}}

SharedFeeds == {<<first, second>> : first \in SharedEvents(1), second \in SharedEvents(2)}

SharedInit ==
    \E cfg \in Configurations, feed \in SharedFeeds :
        InitWith(cfg, Pairs, ExchangePrices, feed, TRUE, <<>>, 0)

SharedSpec == SharedInit /\ [][Backtest]_vars

----------------------------------------------------------------------------
(* A backtest of a Core with a Trader for each pair and a history horizon  *)
(* of 0 days or 1 day                                                      *)

FetchConfigurations ==
    [starting_equity : StartingEquities, exchange_fee : ExchangeFees, run_live : {FALSE},
     stream : {"broadcast"}, n_days_to_fetch : {0, 1}]

FetchInit ==
    \E cfg \in FetchConfigurations, first \in SharedEvents(1) :
        InitWith(cfg, Pairs, ExchangePrices, <<first>>, TRUE, <<>>, 0)

FetchingHistory ==
    \/ CoreFetchHistory
    \/ FetchCandles
    \/ FetchNotify
    \/ CoreFetchingStopped
    \/ Backtest

FetchSpec == FetchInit /\ [][FetchingHistory]_vars

----------------------------------------------------------------------------
(* A Core with a Trader for each pair and a starting equity of 50, half of *)
(* the default order value, on an exchange that executes at 120            *)

ScarceConfigurations ==
    [starting_equity : {50 * Scale}, exchange_fee : ExchangeFees, run_live : BOOLEAN,
     stream : {"broadcast"}, n_days_to_fetch : {0}]

ScarceInit ==
    \E cfg \in ScarceConfigurations, feed \in SharedFeeds :
        InitWith(cfg, Pairs, {120 * Scale}, feed, TRUE, <<>>, 0)

ScarceSpec == ScarceInit /\ [][Backtest]_vars

----------------------------------------------------------------------------
(* A Core with a Trader for each pair, in which update_from_fill may fail *)

Failing ==
    \/ Backtest
    \/ \E t \in Pairs : TraderFillFails(t)

FailureSpec == SharedInit /\ [][Failing]_vars

----------------------------------------------------------------------------
(* Termination of a Core with a Trader for each pair: the operator's       *)
(* Terminate is buffered for the Core from the start                       *)

\* The backlog is empty, or holds a candle that makes one of the Traders enter
TerminateFeeds ==
    {<<>>} \cup {<<BacktestCandle("BTCUSDT", close, 1, "buy")>> : close \in Closes}

\* A live session
TerminateConfigurations == {cfg \in Configurations : cfg.run_live}

TerminateInit ==
    \E cfg \in TerminateConfigurations, feed \in TerminateFeeds, open \in BOOLEAN :
        InitWith(cfg, Pairs, {100 * Scale}, feed, open, <<[type |-> "Terminate"]>>, 0)

Terminating ==
    \/ CoreStart
    \/ CoreTradingStopped
    \/ CoreCommand
    \/ CoreSendExitPosition
    \/ CoreSendTerminate
    \/ CoreSummary
    \/ \E t \in Pairs : TraderCommand(t) \/ Trading(t)

TerminateSpec == TerminateInit /\ [][Terminating]_vars

\* The Core and each Trader are tasks of the tokio runtime: each keeps being
\* scheduled while it has a step to take
CoreTask ==
    \/ CoreStart
    \/ CoreTradingStopped
    \/ CoreCommand
    \/ CoreSendExitPosition
    \/ CoreSendTerminate
    \/ CoreSummary

TraderTask(t) == TraderCommand(t) \/ Trading(t)

FairTerminateSpec ==
    /\ TerminateSpec
    /\ WF_vars(CoreTask)
    /\ \A t \in Pairs : WF_vars(TraderTask(t))

----------------------------------------------------------------------------
(* The operator exits all Positions and drops its sender: the Core returns *)
(* on the closed command channel, and with it go the Traders' senders      *)

DropInit ==
    \E cfg \in TerminateConfigurations, feed \in TerminateFeeds, open \in BOOLEAN :
        InitWith(cfg, Pairs, {100 * Scale}, feed, open, <<[type |-> "ExitAllPositions"]>>, 0)

Dropping ==
    \/ CoreStart
    \/ CoreTradingStopped
    \/ CoreCommand
    \/ CoreCommandClosed
    \/ CoreSendExitPosition
    \/ CoreSummary
    \/ OperatorDrop
    \/ \E t \in Pairs : TraderCommand(t) \/ TraderCommandDisconnected(t) \/ Trading(t)

DropSpec == DropInit /\ [][Dropping]_vars

\* Each Trader task keeps being scheduled while it has a step to take
TraderLoop(t) == TraderCommand(t) \/ TraderCommandDisconnected(t) \/ Trading(t)

FairDropSpec ==
    /\ DropSpec
    /\ WF_vars(CoreTask \/ CoreCommandClosed)
    /\ \A t \in Pairs : WF_vars(TraderLoop(t))

----------------------------------------------------------------------------
(* A backtest in which a write of init_core_in_db may fail *)

InitFailing ==
    \/ CoreStart
    \/ CoreStartInitFails
    \/ CoreTradingStopped
    \/ CoreSummary
    \/ CloseFeed
    \/ \E t \in Pairs : Trading(t) \/ TraderFillFails(t)

InitFailSpec == BacktestInit /\ [][InitFailing]_vars

----------------------------------------------------------------------------
(* A backtest of a Core with a Trader for each pair, with the calls of     *)
(* update_from_fill on record                                              *)

FillsOnRecord ==
    \/ CoreStart
    \/ CoreTradingStopped
    \/ CoreSummary
    \/ CloseFeed
    \/ \E t \in Pairs :
          \/ TraderPollNext(t)
          \/ TraderPollEmpty(t)
          \/ TraderPollClosed(t)
          \/ TraderMarket(t)
          \/ TraderSignal(t)
          \/ TraderSignalForceExit(t)
          \/ TraderOrder(t)
          \/ TraderFillOnRecord(t)

FillRecordSpec == SharedInit /\ [][FillsOnRecord]_vars

----------------------------------------------------------------------------
(* A live session of one Trader on a buy and a sell candle, with the calls *)
(* of generate_fill on record                                              *)

LiveFeeds ==
    {<<BacktestCandle("BTCUSDT", close, 1, "buy"), BacktestCandle("BTCUSDT", close, 2, "sell")>>
        : close \in Closes}

LiveInit ==
    \E cfg \in TerminateConfigurations, feed \in LiveFeeds :
        InitWith(cfg, {"BTCUSDT"}, ExchangePrices, feed, TRUE, <<>>, 0)

LiveFilling ==
    \/ CoreStart
    \/ CoreTradingStopped
    \/ CoreSummary
    \/ CloseFeed
    \/ \E t \in Pairs :
          \/ TraderPollNext(t)
          \/ TraderPollEmpty(t)
          \/ TraderPollClosed(t)
          \/ TraderMarket(t)
          \/ TraderSignal(t)
          \/ TraderSignalForceExit(t)
          \/ TraderOrderOnRecord(t)
          \/ TraderFill(t)

LiveFillSpec == LiveInit /\ [][LiveFilling]_vars

----------------------------------------------------------------------------
(* The Portfolio lock and the Database lock (both tokio::sync::Mutex): each *)
(* operation of a task as the sequence of the lock, unlock, call and return *)
(* steps it takes, in program order.  A guard that is a temporary of a      *)
(* statement is released at the end of that statement; a guard bound by     *)
(* `let` is released at the end of its block.                               *)

Lock(lock) == [op |-> "lock", on |-> lock]
Unlock(lock) == [op |-> "unlock", on |-> lock]
Call(function) == [op |-> "call", on |-> function]
Return == [op |-> "return", on |-> "none"]

\* A method of Portfolio that locks the Database once: open_positions,
\* update_from_market, generate_exit_order, update_from_fill, get_statistics
DatabaseAccess == <<Lock("Database"), Unlock("Database")>>

\* Trader::run, TryRecvError::Closed: portfolio.lock().await.open_positions(..)
closed_arm == <<Lock("Portfolio")>> \o DatabaseAccess \o <<Unlock("Portfolio")>>

\* Trader::run, Event::Market: generate_signal, then
\* portfolio.lock().await.update_from_market(..)
market_arm ==
    <<Call("generate_signal"), Return, Lock("Portfolio")>> \o DatabaseAccess
        \o <<Unlock("Portfolio")>>

\* Trader::run, Event::Signal: portfolio.lock().await.generate_order(..), which
\* locks the Database for get_open_position, for no_cash_to_enter_new_position
\* and for get_balance, one after the other
signal_arm ==
    <<Lock("Portfolio")>> \o DatabaseAccess \o DatabaseAccess \o DatabaseAccess
        \o <<Unlock("Portfolio")>>

\* Trader::run, Event::SignalForceExit: portfolio.lock().await.generate_exit_order(..)
signal_force_exit_arm == <<Lock("Portfolio")>> \o DatabaseAccess \o <<Unlock("Portfolio")>>

\* An Event::Order arm that calls generate_fill under the Portfolio lock
order_arm_under_lock ==
    <<Lock("Portfolio"), Call("generate_fill"), Return, Unlock("Portfolio")>>

\* Trader::run, Event::Order: execution.generate_fill(..), which calls fill_order
order_arm == <<Call("generate_fill"), Return>>

\* Trader::run, Event::Fill: portfolio.lock().await.update_from_fill(..)
fill_arm == <<Lock("Portfolio")>> \o DatabaseAccess \o <<Unlock("Portfolio")>>

\* A summary task that reads the Database first and the Portfolio under it
summary_task_database_first ==
    <<Lock("Database"), Lock("Portfolio"), Unlock("Portfolio"), Unlock("Database")>>

\* generate_session_summary, the task spawned for a pair:
\* portfolio_clone.lock().await, then portfolio.get_statistics(..)
summary_task == <<Lock("Portfolio")>> \o DatabaseAccess \o <<Unlock("Portfolio")>>

\* Core::run's own accesses: init_core_in_db, and generate_session_summary
\* after its tasks were awaited, each under self.database.lock().await
core_database_access == DatabaseAccess

\* fetch_history, one turn of the spawned task: fetch_candles, then
\* database.lock().await.add_candles(..)
fetch_turn == <<Call("fetch_candles"), Return>> \o DatabaseAccess

\* new_ticker: database.lock().await.fetch_all_candles(..), then, in the
\* spawned task, generate_backtest_signals
ticker_start == DatabaseAccess \o <<Call("generate_backtest_signals"), Return>>

\* The operations a task can be in
Scripts(task) ==
    IF task[1] = "Trader"
    THEN {closed_arm, market_arm, signal_arm, signal_force_exit_arm, order_arm, fill_arm}
    ELSE IF task[1] = "summary" THEN {summary_task}
    ELSE IF task[1] = "Core" THEN {core_database_access}
    ELSE IF task[1] = "fetch_history" THEN {fetch_turn}
    ELSE {ticker_start}

\* The task that holds `lock`, if any
Holders(lock) ==
    {task \in LockTasks : \E i \in DOMAIN locking.held[task] : locking.held[task][i] = lock}

\* The next step of `task` is of kind `op`
AtStep(task, op) ==
    /\ locking.script[task] # <<>>
    /\ Head(locking.script[task]).op = op

Stepped(task) == [locking.script EXCEPT ![task] = Tail(@)]

lock_unchanged ==
    <<config, traders, command_transmitters, quotes, market_feed, applied, fetching,
      inputs_left, db_vars, core_vars, operator_vars, trader_pc, trader_exit,
      command_reciever, senders_alive, event_rx, feed_vars, event_queue, emitted, left_vars>>

\* A task comes to one of its operations
TaskBegins(task) ==
    /\ locking.script[task] = <<>>
    /\ \E script \in Scripts(task) :
          locking' = [locking EXCEPT !.script[task] = script]
    /\ UNCHANGED lock_unchanged

\* Mutex::lock().await returns once no task holds the lock
TaskLocks(task) ==
    /\ AtStep(task, "lock")
    /\ Holders(Head(locking.script[task]).on) = {}
    /\ locking' = [locking EXCEPT
                      !.held[task] = Append(@, Head(locking.script[task]).on),
                      !.script = Stepped(task)]
    /\ UNCHANGED lock_unchanged

\* The guard is dropped
TaskUnlocks(task) ==
    /\ AtStep(task, "unlock")
    /\ locking' = [locking EXCEPT
                      !.held[task] = SelectSeq(@, LAMBDA lock :
                                                     lock # Head(locking.script[task]).on),
                      !.script = Stepped(task)]
    /\ UNCHANGED lock_unchanged

\* The task enters a model-adapter or exchange call
TaskCalls(task) ==
    /\ AtStep(task, "call")
    /\ locking' = [locking EXCEPT
                      !.calling[task] = Head(locking.script[task]).on,
                      !.script = Stepped(task)]
    /\ UNCHANGED lock_unchanged

\* The call returns
TaskReturns(task) ==
    /\ AtStep(task, "return")
    /\ locking' = [locking EXCEPT !.calling[task] = "none", !.script = Stepped(task)]
    /\ UNCHANGED lock_unchanged

LockInit ==
    \E cfg \in {c \in Configurations : ~c.run_live} :
        InitWith(cfg, Pairs, ExchangePrices, <<>>, TRUE, <<>>, 0)

Locking ==
    \E task \in LockTasks :
        \/ TaskBegins(task)
        \/ TaskLocks(task)
        \/ TaskUnlocks(task)
        \/ TaskCalls(task)
        \/ TaskReturns(task)

LockSpec == LockInit /\ [][Locking]_vars

----------------------------------------------------------------------------
(* A Trader that has fallen behind: the broadcast holds BroadcastCapacity   *)
(* candles of its pair that were sent before its first poll, and the        *)
(* ticker sends more while the Trader works through them                    *)

\* The candle of BTCUSDT published at `time`, with a signal to buy or none
LagCandles(time) ==
    {BacktestCandle("BTCUSDT", close, time, label) : close \in Closes, label \in {"buy", "hold"}}

LagBacklog == [time \in 1..BroadcastCapacity |-> BacktestCandle("BTCUSDT", 100 * Scale, time, "hold")]

LagInit ==
    \E cfg \in {c \in Configurations : ~c.run_live} :
        InitWith(cfg, {"BTCUSDT"}, {100 * Scale}, LagBacklog, TRUE, <<>>, MaxInputs)

\* event_tx.send(Event::Market(market_event)) while a Trader has unread events
PublishBehind ==
    /\ feed_open
    /\ inputs_left > 0
    /\ \E t \in traders : trader_pc[t] # "done" /\ event_rx[t] # <<>>
    /\ \E event \in LagCandles(published + 1) : Broadcast(event)
    /\ published' = published + 1
    /\ inputs_left' = inputs_left - 1
    /\ UNCHANGED <<setup, db_vars, core_vars, operator_vars, trader_pc, trader_exit,
                   command_reciever, senders_alive, feed_open, event_queue, emitted,
                   left_vars>>

Lagging ==
    \/ CoreStart
    \/ CoreTradingStopped
    \/ CoreSummary
    \/ PublishBehind
    \/ CloseFeed
    \/ \E t \in Pairs : TraderPollLagged(t) \/ Trading(t)

LagSpec == LagInit /\ [][Lagging]_vars

----------------------------------------------------------------------------
(* A MarketFeed, its producer (the ticker task) and its caller *)

program_vars ==
    <<config, traders, command_transmitters, quotes, db_vars, core_vars, operator_vars,
      trader_pc, trader_exit, command_reciever, senders_alive, event_rx, feed_vars,
      inputs_left, event_queue, emitted, left_vars, fetching, locking>>

\* MarketFeed::run returns Ok: the ticker is started, market_receiver is Some
FeedRunStarts ==
    /\ market_feed.run # "started"
    /\ market_feed' = [market_feed EXCEPT !.market_receiver = TRUE, !.run = "started",
                                          !.producer_alive = TRUE]
    /\ UNCHANGED <<program_vars, applied>>

\* MarketFeed::run returns Err by `?`: market_receiver stays None
FeedRunFails ==
    /\ market_feed.run = "never"
    /\ market_feed' = [market_feed EXCEPT !.run = "failed"]
    /\ UNCHANGED <<program_vars, applied>>

\* The events of a stream: the candle of pair BTCUSDT with a model label
FeedItems(time) == {BacktestCandle("BTCUSDT", close, time, label) : close \in Closes, label \in Labels}

\* tx.send(MarketEvent { .. }) of the ticker task
ProducerSend ==
    /\ market_feed.producer_alive
    /\ Len(market_feed.sent) < MaxFeedItems
    /\ \E event \in FeedItems(Len(market_feed.sent) + 1) :
          market_feed' = [market_feed EXCEPT !.channel = Append(@, event),
                                                !.sent = Append(@, event)]
    /\ UNCHANGED <<program_vars, applied>>

\* The ticker task ends and drops the sender
ProducerClose ==
    /\ market_feed.producer_alive
    /\ market_feed' = [market_feed EXCEPT !.producer_alive = FALSE]
    /\ UNCHANGED <<program_vars, applied>>

\* A call of MarketFeed::next
FeedNext ==
    /\ market_feed.polls < MaxPolls
    /\ LET feed == next(market_feed)
       IN  market_feed' =
              [market_feed EXCEPT
                  !.polls = @ + 1,
                  !.last = feed,
                  !.channel = IF feed.feed = "Next" THEN Tail(@) ELSE @,
                  !.returned = IF feed.feed = "Next" THEN Append(@, feed.event) ELSE @]
    /\ UNCHANGED <<program_vars, applied>>

Feeding ==
    \/ FeedRunStarts
    \/ FeedRunFails
    \/ ProducerSend
    \/ ProducerClose
    \/ FeedNext

FeedSpec == Init /\ [][Feeding]_vars

----------------------------------------------------------------------------
(* parse_signal_decisions on every signal map and every Position *)

SignalStrengths == {Scale \div 2, Scale}

\* HashMap<Decision, SignalStrength>: the maps over any of the four decisions
SignalMaps == UNION {[decisions -> SignalStrengths] : decisions \in SUBSET Decisions}

\* The fill that entered a Position by `decision`
EntryFill(pair, decision) ==
    [type |-> "Fill", time |-> 1, pair |-> pair,
     market_meta |-> [close |-> 100 * Scale, time |-> 1],
     decision |-> decision, quantity |-> Scale, fill_value_gross |-> 100 * Scale,
     fees |-> [exchange |-> 1, slippage |-> 0], src |-> 1]

\* Option<&Position>: none, a Position of side Buy, a Position of side Sell
OptionalPositions ==
    {NoPosition} \cup {PositionEnter(CoreId, EntryFill("BTCUSDT", decision))
                          : decision \in {"Long", "Short"}}

ParseSignalDecisions ==
    /\ \E position \in OptionalPositions, signals \in SignalMaps :
          applied' = [function |-> "parse_signal_decisions",
                      position |-> position,
                      signals |-> signals,
                      result |-> parse_signal_decisions(position, signals)]
    /\ UNCHANGED <<program_vars, market_feed>>

ParseSpec == Init /\ [][ParseSignalDecisions]_vars

----------------------------------------------------------------------------
(* The backtest ticker: new_ticker on the candles stored for a pair *)

\* A stored candle; `label` is what the model's output holds for its open_time
Candle(time, close, label) ==
    [open_time |-> time, close_time |-> time, close |-> close, label |-> label]

\* The candle tables of up to MaxCandles rows, in the order they are stored
CandleTables ==
    UNION {[1..n -> Closes \X Labels] : n \in 0..MaxCandles}

fetch_all_candles(table) ==
    [i \in 1..Len(table) |-> Candle(i, table[i][1], table[i][2])]

\* utils::remove_vec_items_from_start (utils/mod.rs is not part of the
\* sources at hand): the vector without its first n items
remove_vec_items_from_start(vec, n) ==
    IF n >= Len(vec) THEN <<>> ELSE SubSeq(vec, n + 1, Len(vec))

\* Strategy::generate_backtest_signals: one Option<Signal> for each candle
generate_backtest_signals(candles, buffer_n_of_candles, pair) ==
    LET candles_that_were_analyzed == remove_vec_items_from_start(candles, 0)
    IN  [i \in 1..Len(candles_that_were_analyzed) |->
            BacktestSignal(pair, candles_that_were_analyzed[i].close,
                           candles_that_were_analyzed[i].close_time,
                           candles_that_were_analyzed[i].label)]

\* MarketEvent { time, pair, detail: BacktestCandle((candle, signal)) }
BacktestCandleEvent(pair, candle, signal) ==
    [type |-> "Market", time |-> candle.close_time, pair |-> pair,
     kind |-> "BacktestCandle", close |-> candle.close, signal |-> signal,
     src |-> candle.close_time]

\* new_ticker, for last_n_candles <= candles.len(): the events its task
\* sends, in order.  stream_candles enumerates the candles after the buffer
\* from index 0, and signals.get(index) is the signal at that index (None
\* past the end).  With no candle kept the task panics on first().expect(..)
\* and sends nothing.
new_ticker(stored, last_n_candles, buffer_n_of_candles, pair) ==
    LET skip_n_candles == Len(stored) - last_n_candles
        candles == remove_vec_items_from_start(stored, skip_n_candles)
        signals == generate_backtest_signals(candles, buffer_n_of_candles, pair)
        stream_candles == remove_vec_items_from_start(candles, buffer_n_of_candles)
    IN  IF candles = <<>> THEN <<>>
        ELSE [index \in 1..Len(stream_candles) |->
                 BacktestCandleEvent(pair, stream_candles[index],
                                     IF index <= Len(signals) THEN signals[index]
                                     ELSE NoSignal)]

NewTicker ==
    /\ \E table \in CandleTables, buffer_n_of_candles \in 0..MaxBuffer :
          \E last_n_candles \in 0..Len(table) :
             applied' = [function |-> "new_ticker",
                         candles |-> remove_vec_items_from_start(
                                        fetch_all_candles(table),
                                        Len(table) - last_n_candles),
                         buffer_n_of_candles |-> buffer_n_of_candles,
                         result |-> new_ticker(fetch_all_candles(table), last_n_candles,
                                               buffer_n_of_candles, "BTCUSDT")]
    /\ UNCHANGED <<program_vars, market_feed>>

TickerSpec == Init /\ [][NewTicker]_vars

----------------------------------------------------------------------------
(* new_ticker: the trimming of the stored candles to the last N *)

\* The build profiles: overflow checks on (debug) or off (release)
Builds == {"debug", "release"}

\* `candles.len() - last_n_candles` on usize: when last_n_candles is the
\* larger one the subtraction panics in a build with overflow checks and
\* wraps around in a build without them
skip_n_candles(len, last_n_candles, build) ==
    IF last_n_candles <= len THEN [panics |-> FALSE, n |-> len - last_n_candles]
    ELSE IF build = "debug" THEN [panics |-> TRUE]
    ELSE [panics |-> FALSE, n |-> 2^UsizeBits + len - last_n_candles]

\* new_ticker up to the trimming: the candles it keeps (none when it panics)
TrimCandles ==
    /\ \E table \in CandleTables, last_n_candles \in 0..(MaxCandles + 1), build \in Builds :
          LET candles == fetch_all_candles(table)
              skip == skip_n_candles(Len(candles), last_n_candles, build)
          IN  applied' = [function |-> "skip_n_candles",
                          stored |-> candles,
                          last_n_candles |-> last_n_candles,
                          build |-> build,
                          skip |-> skip,
                          candles |-> IF skip.panics THEN <<>>
                                      ELSE remove_vec_items_from_start(candles, skip.n)]
    /\ UNCHANGED <<program_vars, market_feed>>

TrimSpec == Init /\ [][TrimCandles]_vars

----------------------------------------------------------------------------
(* Strategy::generate_signal on every kind of market event *)

\* MarketEventDetail::Trade and MarketEventDetail::OrderBookL1
ReservedEvents(time) ==
    {[type |-> "Market", time |-> time, pair |-> pair, kind |-> kind,
      close |-> close, signal |-> NoSignal, src |-> time]
        : pair \in Pairs, close \in Closes, kind \in {"Trade", "OrderBookL1"}}

\* A call of generate_signal; `model_label` is what the model adapter
\* (run_candle) returns for the candle of the event
GenerateSignal ==
    /\ \E strategy_pair \in Pairs, market_event \in MarketEvents(1) \cup ReservedEvents(1),
          model_label \in Labels, now \in NowTimes :
          applied' = [function |-> "generate_signal",
                      market_event |-> market_event,
                      model_label |-> model_label,
                      strategy_pair |-> strategy_pair,
                      result |-> generate_signal(strategy_pair, market_event, now)]
    /\ UNCHANGED <<program_vars, market_feed>>

SignalSpec == Init /\ [][GenerateSignal]_vars

----------------------------------------------------------------------------
(* Properties *)

RECURSIVE SumRealised(_)
SumRealised(closed) ==
    IF closed = <<>> THEN 0
    ELSE Head(closed).realised_profit_loss + SumRealised(Tail(closed))

\* C1: once the core's balance is initialised, and after any sequence of fills
\* applied by update_from_fill, balance.total is the starting equity plus the
\* sum of realised_profit_loss over the core's closed positions
C1_TotalIsEquityPlusRealised ==
    balance.set =>
        balance.total = config.starting_equity + SumRealised(closed_positions)

\* a Position was closed with a profit or a loss and the total moved with it
C1_Closed ==
    /\ closed_positions # <<>>
    /\ SumRealised(closed_positions) # 0
    /\ balance.total = config.starting_equity + SumRealised(closed_positions)

\* The fill at the front of a draining Trader's queue, applied by its next step
FillAtFront(t) ==
    /\ trader_pc[t] = "drain"
    /\ event_queue[t] # <<>>
    /\ Head(event_queue[t]).type = "Fill"

\* C2: the open index holds at most one Position per (core_id, pair), and a
\* fill of an entry decision (Long, Short) is about to be applied only when
\* the index holds no Position of its (core_id, pair)
C2_OneOpenPositionPerPair ==
    /\ \A p, q \in open_positions : p.position_id = q.position_id => p = q
    /\ \A t \in traders :
          (FillAtFront(t) /\ is_entry(Head(event_queue[t]).decision)) =>
              ~has_open_position(open_positions,
                                 determine_position_id(CoreId, Head(event_queue[t]).pair))

\* an open Position was written again to the index by update_from_market
C2_OpenRewritten ==
    \E p \in open_positions : p.update_time > 0 /\ p.enter_time < 0

\* C3: from init_core_in_db on, balance.available <= balance.total, with the
\* Traders of two pairs entering and exiting on the one balance
C3_AvailableAtMostTotal == balance.set => balance.available <= balance.total

\* the Position of one Trader was closed while the other Trader's is open
C3_ExitedBesideOpen ==
    /\ balance.available < balance.total
    /\ \E p \in open_positions :
          \E i \in 1..Len(closed_positions) : closed_positions[i].pair # p.pair

\* The order of the events derived from one Market event
Rank(kind) ==
    IF kind = "Market" THEN 0
    ELSE IF kind = "Signal" THEN 1
    ELSE IF kind = "Order" THEN 2
    ELSE IF kind = "Fill" THEN 3
    ELSE IF kind \in {"PositionNew", "PositionExit"} THEN 4
    ELSE 5

\* The events the claim is about: Market, Signal, Order, Fill, PositionNew,
\* PositionExit, Balance (a PositionUpdate is not among them)
RECURSIVE Ordered(_)
Ordered(log) ==
    IF log = <<>> THEN <<>>
    ELSE IF Head(log).kind = "PositionUpdate" THEN Ordered(Tail(log))
    ELSE <<Head(log)>> \o Ordered(Tail(log))

\* `first` comes before `second`: it derives from an earlier Market event, or
\* from the same one and is earlier in the order of the kinds
Before(first, second) ==
    \/ first.src < second.src
    \/ first.src = second.src /\ Rank(first.kind) < Rank(second.kind)

\* C4: in what a Trader takes and emits, the events derived from a Market
\* event m come after m and before the next Market event the Trader takes,
\* in the order Market, Signal, Order, Fill, position event, Balance (each
\* event is before the one that follows it, hence before all that follow)
C4_EventOrder ==
    \A t \in traders :
        LET log == Ordered(emitted[t])
        IN  \A i \in 1..(Len(log) - 1) : Before(log[i], log[i + 1])

\* a Trader emitted the whole chain of one Market event and took the next
C4_ChainThenNextMarket ==
    \E t \in traders :
        LET log == Ordered(emitted[t])
        IN  /\ Len(log) >= 7
            /\ \A i \in 1..6 : Rank(log[i].kind) = i - 1 /\ log[i].src = log[1].src
            /\ log[7].kind = "Market"

\* Every Trader task has ended
RunFinished == \A t \in traders : trader_pc[t] = "done"

\* C5: a Trader that had an open Position on its pair when the Core handled
\* Terminate has moved that Position to the closed index by the time it has
\* left its loop on the Terminate
C5_ExitBeforeLeaving ==
    \A t \in traders :
        (trader_pc[t] = "done" /\ trader_exit[t] = "terminate" /\ t \in open_at_terminate)
            => t \in exited_since

\* C6: of the commands terminate_traders sends, every Trader's channel gets
\* ExitPosition before it gets Terminate, and Terminate is sent to no Trader
\* before ExitPosition has been sent to every Trader
C6_ExitPositionBeforeTerminate ==
    \A t \in traders :
        \A i \in 1..Len(dispatched[t]) :
            dispatched[t][i].type = "Terminate" =>
                /\ i = 2
                /\ dispatched[t][1].type = "ExitPosition"
                /\ dispatched[t][i].delivered => dispatched[t][1].delivered
                /\ \A u \in traders :
                      dispatched[u] # <<>> /\ dispatched[u][1].type = "ExitPosition"

\* both Traders were sent, and got, ExitPosition and then Terminate
C6_BothDispatched ==
    \A t \in traders :
        /\ Len(dispatched[t]) = 2
        /\ dispatched[t][2].type = "Terminate"
        /\ dispatched[t][1].delivered /\ dispatched[t][2].delivered

\* C7: once the Core handles Terminate, every Trader eventually leaves its
\* loop and the Core eventually is at the summary step or past it
C7_TerminateCompletes ==
    (core_pc = "terminate_exit_all") ~>
        (RunFinished /\ core_pc \in {"summary", "returned"})

\* the Core has handled Terminate and returned, and both Traders took the Terminate
C7_Terminated ==
    /\ core_pc = "returned"
    /\ \A t \in traders :
          /\ trader_exit[t] = "terminate"
          /\ Len(dispatched[t]) = 2

\* The fill of an order of `candle` that the exchange executes at `price`
FillAt(candle, decision, quantity, price) ==
    [type |-> "Fill", time |-> CHOOSE now \in NowTimes : TRUE, pair |-> candle.pair,
     market_meta |-> [close |-> candle.close, time |-> candle.time],
     decision |-> decision, quantity |-> quantity,
     fill_value_gross |-> Div(Abs(quantity) * price, Scale),
     fees |-> [exchange |-> config.exchange_fee, slippage |-> 0], src |-> candle.src]

\* The closed Positions of the run of CleanLongCycle in which the exchange
\* executes each order at the close of the order's candle
CleanLongCycleClosed ==
    LET entered == PositionEnter(CoreId, FillAt(CleanLongCycle[1], "Long", Scale, 100 * Scale))
        updated == PositionUpdate(PositionUpdate(entered, CleanLongCycle[2]), CleanLongCycle[3])
    IN  <<PositionExit(updated, FillAt(CleanLongCycle[3], "CloseLong", Scale, 120 * Scale))>>

\* C8: a finished backtest of the stored candles and labels of
\* clean_long_cycle has the closed Positions and the summary figures of every
\* other run of that stream and configuration (those of the run in which the
\* exchange executes at the candles' closes)
C8_BacktestDeterminism ==
    (RunFinished /\ config.stream = "clean_long_cycle") =>
        /\ closed_positions = CleanLongCycleClosed
        /\ statistics.trades = 1
        /\ statistics.pnl = CleanLongCycleClosed[1].realised_profit_loss

\* the run that executes at the candles' closes is one of the runs
C8_ReferenceRun ==
    /\ RunFinished
    /\ config.stream = "clean_long_cycle"
    /\ closed_positions = CleanLongCycleClosed

\* realised_profit_loss by the formula, in the fixed point of the model
RealisedByFormula(p) ==
    LET sign == IF p.side = "Buy" THEN 1 ELSE 0 - 1
    IN  Div(sign * (p.exit_avg_price_gross - p.enter_avg_price_gross) * Abs(p.quantity), Scale)
        - p.enter_fees_total - p.exit_fees_total

C10_CleanLongCycle ==
    config.stream = "clean_long_cycle" =>
        /\ \A t \in traders :
              (FillAtFront(t) /\ is_exit(Head(event_queue[t]).decision)) =>
                  Head(event_queue[t]).quantity = 0 - Scale
        /\ RunFinished =>
              /\ Len(closed_positions) = 1
              /\ closed_positions[1].quantity = Scale
              /\ closed_positions[1].enter_avg_price_gross = 100 * Scale
              /\ closed_positions[1].enter_fees_total = 100
              /\ closed_positions[1].exit_avg_price_gross = 120 * Scale
              /\ closed_positions[1].exit_fees_total = 120
              /\ closed_positions[1].realised_profit_loss = 19780
              /\ balance.total = 1019780
              /\ balance.available = 1019780
              /\ open_positions = {}

\* Trader t handles the SignalForceExit at the front of its queue in this step
ForceExitHandled(t) ==
    /\ trader_pc[t] = "drain"
    /\ event_queue[t] # <<>>
    /\ Head(event_queue[t]).type = "SignalForceExit"
    /\ event_queue'[t] # event_queue[t]

\* C11: a step that handles a SignalForceExit with no Position open for the
\* signal's pair queues no order and changes nothing of the database; with a
\* Position open it queues an order with the matching close decision
\* (CloseLong for side Buy, CloseShort for side Sell), the negated quantity
\* of the Position, and the Position's current price and last update time
\* as market_meta, and changes nothing of the database
C11_ExitOrder ==
    [][\A t \in traders :
          ForceExitHandled(t) =>
              LET signal == Head(event_queue[t])
                  position == get_open_position(open_positions,
                                  determine_position_id(CoreId, signal.pair))
                  queue == event_queue'[t]
              IN  /\ UNCHANGED db_vars
                  /\ IF position = NoPosition
                     THEN queue = Tail(event_queue[t]) /\ emitted'[t] = emitted[t]
                     ELSE /\ queue # <<>>
                          /\ queue = Append(Tail(event_queue[t]), queue[Len(queue)])
                          /\ queue[Len(queue)].type = "Order"
                          /\ queue[Len(queue)].pair = signal.pair
                          /\ queue[Len(queue)].decision =
                                (IF position.side = "Buy" THEN "CloseLong" ELSE "CloseShort")
                          /\ queue[Len(queue)].quantity = 0 - position.quantity
                          /\ queue[Len(queue)].market_meta =
                                [close |-> position.current_symbol_price,
                                 time |-> position.update_time]]_vars

\* a forced exit order of an open Long is in a Trader's queue
C11_ExitOrderQueued ==
    \E t \in traders :
        \E i \in 1..Len(event_queue[t]) :
            LET order == event_queue[t][i]
                position == get_open_position(open_positions,
                                determine_position_id(CoreId, t))
            IN  /\ order.type = "Order"
                /\ order.src = 0
                /\ position # NoPosition
                /\ position.side = "Buy"
                /\ order.decision = "CloseLong"
                /\ order.quantity = 0 - position.quantity
                /\ order.quantity < 0

\* C12: once the market feed has finished, the Trader eventually terminates,
\* and then no Position is open for its pair
C12_FeedFinishCloses ==
    (~feed_open) ~> (RunFinished /\ open_positions = {})

\* the feed has finished with a Long open and the forced exit closed it: the
\* Trader ended on the finished feed with its Position in the closed index
C12_ForcedExitClosed ==
    /\ config.stream = "force_exit_on_feed_finish"
    /\ RunFinished
    /\ \A t \in traders : trader_exit[t] = "finished"
    /\ Len(closed_positions) = 1
    /\ open_positions = {}

\* Trader t handles the Signal at the front of its queue in this step
SignalHandled(t) ==
    /\ trader_pc[t] = "drain"
    /\ event_queue[t] # <<>>
    /\ Head(event_queue[t]).type = "Signal"
    /\ event_queue'[t] # event_queue[t]

\* The events of the kinds `kinds` in a Trader's record
RECURSIVE OfKinds(_, _)
OfKinds(log, kinds) ==
    IF log = <<>> THEN <<>>
    ELSE IF Head(log).kind \in kinds THEN <<Head(log)>> \o OfKinds(Tail(log), kinds)
    ELSE OfKinds(Tail(log), kinds)

\* C13: a step that handles a Signal while no Position is open for the
\* signal's pair and balance.available is 0 queues no Order, sends nothing
\* and leaves the database (balance, Positions) unchanged; hence the run of
\* one buy signal on zero equity never has an Order, a Fill or a Position,
\* and its balance stays at 0
C13_VetoOnZeroCash ==
    /\ [][\A t \in traders :
            (/\ SignalHandled(t)
             /\ ~has_open_position(open_positions,
                    determine_position_id(CoreId, Head(event_queue[t]).pair))
             /\ balance.available = 0)
            => /\ event_queue'[t] = Tail(event_queue[t])
               /\ emitted'[t] = emitted[t]
               /\ UNCHANGED db_vars]_vars
    /\ [](config.stream = "veto_on_zero_cash" =>
            /\ open_positions = {}
            /\ closed_positions = <<>>
            /\ balance.total = 0 /\ balance.available = 0
            /\ \A t \in traders :
                  /\ OfKinds(emitted[t], {"Order", "Fill", "PositionNew"}) = <<>>
                  /\ \A i \in 1..Len(event_queue[t]) :
                        event_queue[t][i].type \notin {"Order", "Fill"})

\* the buy signal was sent and handled on a balance with nothing available
C13_SignalVetoed ==
    /\ balance.set
    /\ balance.available = 0
    /\ \E t \in traders :
          /\ OfKinds(emitted[t], {"Signal"}) # <<>>
          /\ event_queue[t] = <<>>
          /\ trader_pc[t] = "loop"

\* Trader t has returned an error from its loop
Failed(t) == trader_pc[t] = "done" /\ trader_exit[t] = "failed"

C15_DroppedSenderTerminates ==
    /\ [][\A t \in traders :
            (trader_exit[t] = "none" /\ trader_exit'[t] = "terminate") =>
                \/ /\ command_reciever[t] # <<>>
                   /\ Head(command_reciever[t]).type = "Terminate"
                \/ /\ command_reciever[t] = <<>>
                   /\ ~senders_alive]_vars
    /\ (~senders_alive) ~> RunFinished

\* the senders are dropped: one Trader has left on the synthetic Terminate,
\* the other still has a buffered command to read
C15_ReadThenLeft ==
    \E t \in traders :
        /\ ~senders_alive
        /\ trader_exit[t] = "terminate"
        /\ dispatched[t] = <<>>
        /\ \E u \in traders \ {t} :
              /\ trader_pc[u] = "loop"
              /\ command_reciever[u] # <<>>

\* C16: a Trader that is about to poll its market feed (its command drain is
\* over, event_rx.try_recv() is its next step) has an empty event queue
C16_PollsOnEmptyQueue ==
    \A t \in traders : CommandsDrained(t) => event_queue[t] = <<>>

\* C17: a step in which update_from_fill returns an error (the Trader fails)
\* leaves the balance, the open index and the closed index unchanged, and
\* in every step a Position that leaves the open index is appended to the
\* closed index
C17_FillIsAtomic ==
    [][/\ \A t \in traders :
            (~Failed(t) /\ Failed(t)') =>
                UNCHANGED <<balance, open_positions, closed_positions>>
       /\ \A p \in open_positions :
            ~has_open_position(open_positions', p.position_id) =>
                /\ Len(closed_positions') = Len(closed_positions) + 1
                /\ closed_positions'[Len(closed_positions')].position_id = p.position_id]_vars

\* sequence `short` is the beginning of sequence `long`
IsPrefix(short, long) ==
    /\ Len(short) <= Len(long)
    /\ \A i \in 1..Len(short) : short[i] = long[i]

\* C18: a call of next() returns Unhealthy exactly when the feed was never
\* started or failed to start, Empty exactly when it was started, the
\* channel holds no item and the producer has not closed, Next(e) with e the
\* oldest item not yet returned (so the items come in the order sent), and
\* Finished only when the producer has closed and every item it sent has
\* been returned by a Next
C18_FeedNext ==
    [][market_feed'.polls # market_feed.polls =>
          LET feed == market_feed'.last
          IN  /\ feed.feed = "Unhealthy" <=> market_feed.run \in {"never", "failed"}
              /\ feed.feed = "Empty" <=>
                    (/\ market_feed.run = "started"
                     /\ market_feed.returned = market_feed.sent
                     /\ market_feed.producer_alive)
              /\ feed.feed = "Next" =>
                    /\ market_feed'.returned = Append(market_feed.returned, feed.event)
                    /\ IsPrefix(market_feed'.returned, market_feed.sent)
              /\ feed.feed = "Finished" =>
                    /\ ~market_feed.producer_alive
                    /\ market_feed.returned = market_feed.sent]_vars

\* next() returned Finished after it had returned each of the three items sent
C18_AllReturnedThenFinished ==
    /\ market_feed.last.feed = "Finished"
    /\ Len(market_feed.sent) = MaxFeedItems
    /\ market_feed.returned = market_feed.sent

\* Trader t handles the Order at the front of its queue in this step
OrderHandled(t) ==
    /\ trader_pc[t] = "drain"
    /\ event_queue[t] # <<>>
    /\ Head(event_queue[t]).type = "Order"
    /\ event_queue'[t] # event_queue[t]

\* C19: in a backtest (run_live false) the step that handles an Order queues
\* the Fill built from the order alone: quantity = order.quantity, time =
\* order.time, fill_value_gross = |order.quantity| * order.market_meta.close,
\* fees = {the configured exchange rate, slippage 0}
C19_BacktestFillFromOrder ==
    [][\A t \in traders :
          (OrderHandled(t) /\ ~config.run_live) =>
              LET order == Head(event_queue[t])
                  queue == event_queue'[t]
              IN  /\ queue # <<>>
                  /\ queue = Append(Tail(event_queue[t]), queue[Len(queue)])
                  /\ queue[Len(queue)].type = "Fill"
                  /\ queue[Len(queue)].pair = order.pair
                  /\ queue[Len(queue)].decision = order.decision
                  /\ queue[Len(queue)].quantity = order.quantity
                  /\ queue[Len(queue)].time = order.time
                  /\ queue[Len(queue)].fill_value_gross =
                        Div(Abs(order.quantity) * order.market_meta.close, Scale)
                  /\ queue[Len(queue)].fees =
                        [exchange |-> config.exchange_fee, slippage |-> 0]]_vars

\* Trader t is running with a SignalForceExit waiting in its event queue
PendingForceExit(t) ==
    /\ trader_pc[t] # "done"
    /\ \E i \in 1..Len(event_queue[t]) : event_queue[t][i].type = "SignalForceExit"

\* C20: a SignalForceExit that an ExitPosition command put in a Trader's
\* queue is eventually taken from the queue by the drain, whether or not a
\* further market event arrives (a poll that returns Empty is followed by
\* the drain of that iteration)
C20_EmptyPollDrains ==
    \A t \in Pairs : PendingForceExit(t) ~> ~PendingForceExit(t)

\* Trader t polls its closed, empty feed in this step
ClosedPolled(t) ==
    /\ CommandsDrained(t)
    /\ event_rx[t] = <<>>
    /\ ~feed_open
    /\ trader_pc'[t] # trader_pc[t]

\* C21: a step in which a Trader finds its feed finished looks at the open
\* Position of the Trader's own pair only: with one open it queues a
\* SignalForceExit for its pair with that Position's update_time as time;
\* with none open on its pair it leaves its loop, also while a Position of
\* another pair of the core is open
C21_FinishedLooksAtOwnPair ==
    [][\A t \in traders :
          ClosedPolled(t) =>
              LET position == get_open_position(open_positions,
                                  determine_position_id(CoreId, t))
              IN  IF position # NoPosition
                  THEN /\ event_queue'[t] =
                             Append(event_queue[t], SignalForceExit(t, position.update_time))
                       /\ trader_pc'[t] # "done"
                  ELSE trader_pc'[t] = "done" /\ trader_exit'[t] = "finished"]_vars

\* C22: the step in which a Trader reads Terminate empties its event queue
\* without handling an event of it (nothing is sent, the database is as it
\* was), and from then on the Trader stays ended, its queue stays empty and
\* it sends nothing; once every Trader has ended the database does not change
C22_TerminateDiscards ==
    /\ [][\A t \in traders :
            (trader_exit[t] = "none" /\ trader_exit'[t] = "terminate") =>
                /\ trader_pc'[t] = "done"
                /\ event_queue'[t] = <<>>
                /\ emitted'[t] = emitted[t]
                /\ UNCHANGED db_vars]_vars
    /\ [][\A t \in traders :
            trader_exit[t] = "terminate" =>
                /\ trader_pc'[t] = "done"
                /\ event_queue'[t] = <<>>
                /\ emitted'[t] = emitted[t]]_vars
    /\ [][RunFinished => UNCHANGED db_vars]_vars

\* a Trader read Terminate with the SignalForceExit of an ExitPosition still
\* in its queue: the event was dropped and the Trader's Position is still open
C22_ForceExitDiscarded ==
    \E t \in traders :
        /\ trader_exit[t] = "terminate"
        /\ discarded[t] # <<>>
        /\ discarded[t][1].type = "SignalForceExit"
        /\ has_open_position(open_positions, determine_position_id(CoreId, t))

\* The decision of a result, "None" when the result is None
DecisionOf(result) == IF result.some THEN result.decision ELSE "None"

\* C23: parse_signal_decisions, for every signal map over {Long, CloseLong,
\* Short, CloseShort}: with an open Position of side Buy it returns CloseLong
\* (with its strength) if present and otherwise None; with side Sell,
\* CloseShort if present and otherwise None; with no Position, Long if only
\* Long of {Long, Short} is present, Short if only Short is, None if both or
\* neither are; it never returns an entry decision while a Position is open
C23_ParseSignalDecisions ==
    applied.function = "parse_signal_decisions" =>
        LET present == DOMAIN applied.signals
            decision == DecisionOf(applied.result)
        IN  /\ applied.result.some =>
                  applied.result.strength = applied.signals[applied.result.decision]
            /\ applied.position # NoPosition =>
                  /\ ~is_entry(decision)
                  /\ applied.position.side = "Buy" =>
                        decision = (IF "CloseLong" \in present THEN "CloseLong" ELSE "None")
                  /\ applied.position.side = "Sell" =>
                        decision = (IF "CloseShort" \in present THEN "CloseShort" ELSE "None")
            /\ applied.position = NoPosition =>
                  decision = (IF present \cap {"Long", "Short"} = {"Long"} THEN "Long"
                              ELSE IF present \cap {"Long", "Short"} = {"Short"} THEN "Short"
                              ELSE "None")

\* a map with Long and CloseLong was parsed for an open Position of side Buy
C23_EntrySignalWhilePositionOpen ==
    /\ applied.function = "parse_signal_decisions"
    /\ applied.position # NoPosition
    /\ applied.position.side = "Buy"
    /\ DOMAIN applied.signals = {"Long", "CloseLong"}
    /\ DecisionOf(applied.result) = "CloseLong"

\* Trader t queues an order in this step, made from the Signal or the
\* SignalForceExit at the front of its queue
OrderQueued(t) ==
    /\ trader_pc[t] = "drain"
    /\ event_queue[t] # <<>>
    /\ Head(event_queue[t]).type \in {"Signal", "SignalForceExit"}
    /\ event_queue'[t] # event_queue[t]
    /\ Len(event_queue'[t]) = Len(event_queue[t])

\* C24: every order the Portfolio produces has quantity > 0 when its
\* decision is an entry (Long, Short) and quantity < 0 when it is an exit
\* (CloseLong, CloseShort), whatever the balance is, and an entry quantity
\* is at most balance.available / market_meta.close
C24_OrderQuantitySign ==
    [][\A t \in traders :
          OrderQueued(t) =>
              LET order == event_queue'[t][Len(event_queue'[t])]
              IN  /\ order.type = "Order"
                  /\ is_entry(order.decision) =>
                        /\ order.quantity > 0
                        /\ order.quantity <=
                              Div(balance.available * Scale, order.market_meta.close)
                  /\ is_exit(order.decision) => order.quantity < 0]_vars

\* C25: the backtest feed emits, in stored order, one BacktestCandle event
\* for each kept candle after the first buffer_n_of_candles, and the signal
\* of an emitted candle is the one computed for that candle: it is Some
\* exactly when the candle's label is buy or sell, and then its
\* market_meta.time is the candle's close_time
C25_BacktestFeedAligned ==
    applied.function = "new_ticker" =>
        LET candles == applied.candles
            buffer == applied.buffer_n_of_candles
            events == applied.result
        IN  /\ Len(events) = (IF Len(candles) > buffer THEN Len(candles) - buffer ELSE 0)
            /\ \A j \in 1..Len(events) :
                  LET candle == candles[buffer + j]
                  IN  /\ events[j].kind = "BacktestCandle"
                      /\ events[j].time = candle.close_time
                      /\ events[j].close = candle.close
                      /\ events[j].signal.some <=> candle.label \in {"buy", "sell"}
                      /\ events[j].signal.some =>
                            /\ events[j].signal.market_meta.time = candle.close_time
                            /\ events[j].signal.signals = generate_signals_map(candle.label)

\* C26: generate_signal returns the precomputed signal of a BacktestCandle
\* unchanged; for a live Candle it returns a Signal with {Long: 1.0} when
\* the model label is "buy", with {CloseLong: 1.0} when it is "sell", and
\* None when it is "hold"; for a Trade or an OrderBookL1 it returns None
C26_GenerateSignal ==
    applied.function = "generate_signal" =>
        LET market_event == applied.market_event
            result == applied.result
        IN  /\ market_event.kind = "BacktestCandle" => result = market_event.signal
            /\ market_event.kind = "Candle" =>
                  /\ applied.model_label = "buy" =>
                        result.some /\ result.signals = [d \in {"Long"} |-> Scale]
                  /\ applied.model_label = "sell" =>
                        result.some /\ result.signals = [d \in {"CloseLong"} |-> Scale]
                  /\ applied.model_label = "hold" => ~result.some
            /\ market_event.kind \in {"Trade", "OrderBookL1"} => ~result.some

\* C27: in a live session, a step that handles an Order: generate_fill
\* returns the error UnfilledOrder when the exchange answers with a status
\* other than FILLED or with fills of total quantity zero; when generate_fill
\* returns an error the Trader queues no Fill and sends none, the balance
\* and the Positions are unchanged, and the Trader is still running
C27_UnfilledOrder ==
    [][\A t \in traders :
          OrderHandled(t) =>
              LET res == applied'.res
                  result == applied'.result
              IN  /\ applied'.function = "generate_fill"
                  /\ (res.ok /\ (res.status # "FILLED" \/ SumQty(res.fills) = 0)) =>
                        (~result.ok /\ result.error = "UnfilledOrder")
                  /\ ~result.ok =>
                        /\ event_queue'[t] = Tail(event_queue[t])
                        /\ emitted'[t] = emitted[t]
                        /\ UNCHANGED db_vars
                        /\ trader_pc'[t] # "done"
                        /\ trader_exit'[t] = "none"]_vars

\* the exchange answered FILLED without fills to the exit order of an open
\* Long: the Trader is back at its feed with the Position open as before
C27_Unfilled ==
    /\ applied.function = "generate_fill"
    /\ applied.res.ok
    /\ applied.res.status = "FILLED"
    /\ applied.res.fills = <<>>
    /\ applied.result = [ok |-> FALSE, error |-> "UnfilledOrder"]
    /\ trader_pc[applied.trader] = "loop"
    /\ has_open_position(open_positions, determine_position_id(CoreId, applied.trader))

C29_ReportErrorsNotReturned ==
    core_pc = "returned" => core_result = "Ok"

----------------------------------------------------------------------------
(* C30: with a history horizon above 0, no Trader task is started and the  *)
(* balance of the core is not initialised before the fetch task has taken  *)
(* every Trader's pair through its fetch, with the candles of a successful *)
(* fetch handed to add_candles and the error of a failed one logged, and   *)
(* has ended                                                               *)

PairFetched(pair) ==
    \E i \in DOMAIN fetching.fetched :
        /\ fetching.fetched[i].pair = pair
        /\ fetching.fetched[i].fetch = "Ok" => fetching.fetched[i].add_candles # "none"
        /\ fetching.fetched[i].fetch = "Err" => fetching.fetched[i].logged

----------------------------------------------------------------------------
(* C31: the time of an Order                                               *)

\* C31: the order a Trader queues for the Signal or SignalForceExit at the
\* front of its queue carries, in a backtest (run_live false), the time of
\* that signal and not a reading of the wall clock, and in a live run a
\* reading of the wall clock
C31_OrderTime ==
    [][\A t \in traders :
          OrderQueued(t) =>
              LET signal == Head(event_queue[t])
                  order == event_queue'[t][Len(event_queue'[t])]
              IN  IF config.run_live
                  THEN order.time \in NowTimes
                  ELSE order.time = signal.time /\ order.time \notin NowTimes]_vars

----------------------------------------------------------------------------
(* C32: the events update_from_fill returns                                *)

\* C32: a call of update_from_fill that returned Ok returned two events: the
\* position event of its branch (PositionExit when it exited a Position,
\* PositionNew when it entered one) and then a Balance event, which holds the
\* balance the call stored, with the time of the fill
C32_FillEvents ==
    applied.function = "update_from_fill" =>
        /\ Len(applied.events) = 2
        /\ applied.events[1].kind = (IF applied.exited THEN "PositionExit" ELSE "PositionNew")
        /\ applied.events[2].kind = "Balance"
        /\ applied.events[2].balance = balance
        /\ applied.events[2].balance.time = applied.fill.time

\* the fill of a sell candle exited the Position of its pair at a profit or
\* a loss, so that the balance stored differs from the one read
C32_ExitFillOnRecord ==
    /\ applied.function = "update_from_fill"
    /\ applied.exited
    /\ applied.events[1].position.realised_profit_loss # 0
    /\ applied.events[2].balance.total # config.starting_equity

----------------------------------------------------------------------------
(* C33 and C39: the Portfolio lock and the Database lock                   *)

\* C33: a task that is in a call of the model adapter (generate_signal,
\* generate_backtest_signals) or of the exchange (generate_fill,
\* fetch_candles) holds neither the Portfolio lock nor the Database lock
C33_NoLockAcrossCalls ==
    \A task \in LockTasks :
        locking.calling[task] # "none" => locking.held[task] = <<>>

\* a Trader is in generate_fill while the other Trader holds both locks
C33_CallWhileLocksAreHeld ==
    /\ locking.calling[<<"Trader", "BTCUSDT">>] = "generate_fill"
    /\ locking.held[<<"Trader", "ETHBTC">>] = <<"Portfolio", "Database">>

\* `task` waits for a lock another task (or itself) holds
WaitsFor(task, lock) ==
    /\ AtStep(task, "lock")
    /\ Head(locking.script[task]).on = lock
    /\ Holders(lock) # {}

\* C39: a task that holds both locks took the Portfolio lock first, no task
\* waits for the Portfolio lock while it holds the Database lock, and no
\* tasks wait for each other (nor a task for a lock it holds itself)
C39_NoDeadlock ==
    /\ \A task \in LockTasks :
          /\ Len(locking.held[task]) = 2 => locking.held[task] = <<"Portfolio", "Database">>
          /\ WaitsFor(task, "Portfolio") => task \notin Holders("Database")
    /\ \A waiting, holding \in LockTasks, wanted, held \in {"Portfolio", "Database"} :
          ~(/\ WaitsFor(waiting, wanted)
            /\ holding \in Holders(wanted)
            /\ WaitsFor(holding, held)
            /\ waiting \in Holders(held))

\* a summary task holds the Portfolio lock and waits for the Database lock,
\* which Core::run holds, while a Trader waits for the Portfolio lock
C39_TasksWaiting ==
    /\ WaitsFor(<<"summary", "BTCUSDT">>, "Database")
    /\ Holders("Database") = {<<"Core", CoreId>>}
    /\ WaitsFor(<<"Trader", "BTCUSDT">>, "Portfolio")

----------------------------------------------------------------------------
(* C34: a fill with an exit decision                                       *)

\* Trader t handles the Fill at the front of its queue in this step
FillTaken(t) ==
    /\ trader_pc[t] = "drain"
    /\ event_queue[t] # <<>>
    /\ Head(event_queue[t]).type = "Fill"
    /\ event_queue'[t] # event_queue[t]

\* C34: the step that handles a Fill whose decision is CloseLong or
\* CloseShort leaves no Position in the open index that was not there before
C34_ExitFillOpensNothing ==
    [][\A t \in traders :
          (FillTaken(t) /\ is_exit(Head(event_queue[t]).decision)) =>
              open_positions' \subseteq open_positions]_vars

----------------------------------------------------------------------------
(* C35 and C36: the balance of the core                                    *)

\* C35: the available balance of the core is never below 0
C35_AvailableNeverNegative == balance.set => balance.available >= 0

\* C36: while no Position of the core is open, available equals total
C36_AvailableIsTotalWhenFlat ==
    (balance.set /\ open_positions = {}) => balance.available = balance.total

----------------------------------------------------------------------------
(* C37: the session summary and the Traders                                *)

\* C37: when Core::run is at its report step, which reads the balance, the
\* statistics and the closed Positions, every Trader has ended, and once the
\* report step is over no step changes the balance, the statistics or the
\* Positions of the core
C37_SummaryAfterTraders ==
    /\ [](core_pc = "summary" => trading_stopped(trader_pc))
    /\ [][core_pc = "returned" => UNCHANGED db_vars]_vars

----------------------------------------------------------------------------
(* C38: a Trader that falls behind the broadcast                           *)

\* C38: the market events a Trader has taken from the feed are the first
\* events published for its pair, each once and in the order of publication
\* (every event of the feed is of the Trader's pair, and the event published
\* as the n-th has src = n)
C38_NoEventSkipped ==
    \A t \in traders :
        LET taken == OfKinds(emitted[t], {"Market"})
        IN  \A n \in 1..Len(taken) : taken[n].src = n

----------------------------------------------------------------------------
(* C40: the trimming of the backtest feed to the last N candles            *)

\* C40: when fewer candles are stored than last_n_candles asks for, the
\* subtraction neither panics nor wraps: the number of candles to skip is 0
\* and every stored candle is kept
C40_TrimIsDefined ==
    (/\ applied.function = "skip_n_candles"
     /\ Len(applied.stored) < applied.last_n_candles) =>
        /\ ~applied.skip.panics
        /\ applied.skip.n = 0
        /\ applied.candles = applied.stored

====
